---- MODULE Spec2Model ----
(***************************************************************************)
(* Timeline controller, path registry and export pipeline of               *)
(* src/components/signature.tsx (SignatureRoot), and the frame manager     *)
(* globalRAF of lib/raf-manager.                                           *)
(*                                                                         *)
(* Numbers are exact rationals <<n, d>> with d >= 1 in lowest terms;       *)
(* <<0, 0>> stands for the IEEE value NaN that 0/0 produces.  Time         *)
(* (performance.now() and the requestAnimationFrame timestamp) is one      *)
(* integer clock "now".  A ref that holds null is the empty tuple.         *)
(***************************************************************************)
EXTENDS Integers, Sequences, FiniteSets, TLC

\* ---------------------------------------------------------------- bounds
MaxNow == 3
MaxSpeedOps == 1
MaxOrphans == 1
MaxFrames == 2
MaxData == 5
MaxCalls == 3
MaxPending == 2
ConfigDuration == 2

\* ------------------------------------------------------- exact arithmetic
Null == <<>>
NaN == <<0, 0>>
Zero == <<0, 1>>
One == <<1, 1>>

Abs(x) == IF x < 0 THEN -x ELSE x

RECURSIVE GCD(_, _)
GCD(a, b) == IF b = 0 THEN a ELSE GCD(b, a % b)

Norm(n, d) ==
  LET g == GCD(Abs(n), d) IN <<n \div g, d \div g>>

Rat(n) == <<n, 1>>
IsNaN(a) == a[2] = 0
RAdd(a, b) == Norm(a[1] * b[2] + b[1] * a[2], a[2] * b[2])
RSub(a, b) == Norm(a[1] * b[2] - b[1] * a[2], a[2] * b[2])
RMul(a, b) == Norm(a[1] * b[1], a[2] * b[2])
\* a / b for b # 0
RDiv(a, b) ==
  IF b[1] > 0 THEN Norm(a[1] * b[2], a[2] * b[1])
  ELSE Norm(-(a[1] * b[2]), -(a[2] * b[1]))
\* comparisons are false when an operand is NaN, as in JavaScript
RLt(a, b) == ~IsNaN(a) /\ ~IsNaN(b) /\ a[1] * b[2] < b[1] * a[2]
RLe(a, b) == ~IsNaN(a) /\ ~IsNaN(b) /\ a[1] * b[2] <= b[1] * a[2]
RGt(a, b) == RLt(b, a)
RGe(a, b) == RLe(b, a)

\* Math.min / Math.max return NaN when an argument is NaN
MathMin(a, b) == IF IsNaN(a) \/ IsNaN(b) THEN NaN ELSE IF RLt(b, a) THEN b ELSE a
MathMax(a, b) == IF IsNaN(a) \/ IsNaN(b) THEN NaN ELSE IF RLt(a, b) THEN b ELSE a

\* Math.max(0, Math.min(1, x))
Clamp01(x) == MathMax(Zero, MathMin(One, x))

In01(x) == RLe(Zero, x) /\ RLe(x, One)

\* ------------------------------------------------------------ input sets
PathIds == {"a", "b"}
\* <<delay, duration>> of a SignaturePath
PathConfigs == {<<0, 1>>, <<1, 2>>, <<0, 0>>}
\* configurations whose local progress at integer times is a tenth
DrawConfigs == {<<0, 10>>, <<1, 2>>}
SeekInputs == {<<-1, 2>>, <<1, 4>>, <<1, 2>>, One, <<3, 2>>}
SeekSome == {<<-1, 2>>, <<1, 2>>, <<3, 2>>}
SpeedInputs == {<<1, 20>>, <<1, 2>>, One, <<2, 1>>, <<20, 1>>}
SpeedSome == {<<1, 2>>, <<20, 1>>}
SpeedProps == {One, <<2, 1>>}
\* values of the speed prop on both sides of [0.1, 10]
SpeedConfigs == {<<1, 20>>, One, <<20, 1>>}

RespectReducedMotion == TRUE
MinSpeed == <<1, 10>>
MaxSpeed == <<10, 1>>

\* ------------------------------------------------------------- variables
VARIABLES
  now,               \* performance.now() and the frame timestamp
  stateRef,          \* stateRef.current
  animationState,    \* the React state set by setAnimationState
  rafLive,           \* the frame rafRef.current names is still pending
  orphans,           \* pending tickLoop frames rafRef.current no longer names
  startTimeRef,      \* startTimeRef.current, Null or a number
  pausedAtRef,       \* pausedAtRef.current, Null or a number
  progressRef,       \* progressRef.current
  durationTotalRef,  \* durationTotalRef.current
  speedRef,          \* speedRef.current
  speedProp,         \* the speed prop of the last render
  loopRef,           \* loopRef.current (follows the loop prop)
  paths,             \* pathsMapRef.current: id -> PathRecord
  reducedMotion,     \* matchMedia("(prefers-reduced-motion: reduce)").matches
  speedOps,          \* number of speed changes made so far (bounded)
  run,               \* a play-through started by play() is under way or done
  fired,             \* callbacks the last timeline operation called
  pauseSnap,         \* progress a tick would have computed when pause() ran
  lastOp,            \* "setSpeed" right after setSpeed ran, else "other"
  exp,               \* the export in flight
  liveUrls,          \* object URLs created and not yet revoked
  vp,                \* useViewportAutoPlay: its config, refs and observer
  enc,               \* encodeGIF: its arguments and the bytes it returned
  lzw,               \* lzwEncode: its arguments and the bytes it returned
  noise,             \* one createNoise generator and the calls made to it
  raf                \* globalRAF and the browser's animation-frame requests

tlVars == <<stateRef, animationState, rafLive, orphans, startTimeRef,
            pausedAtRef, progressRef, durationTotalRef, speedRef, loopRef,
            paths, run, fired>>
\* the component: timeline, props, environment, export in flight, viewport
\* autoplay
appVars == <<now, tlVars, speedProp, reducedMotion, speedOps, pauseSnap,
             lastOp, exp, liveUrls, vp>>
\* the module-level pure functions, each with its inputs and outputs
pureVars == <<enc, lzw, noise, raf>>
vars == <<appVars, pureVars>>

\* onPlay / onPause / onComplete calls made by one operation
NoCalls == [onPlay |-> 0, onPause |-> 0, onComplete |-> 0]

\* The timeline as one value, so that one operation can call another.
\* Every operation starts with no callback called yet.
TL == [stateRef |-> stateRef, animationState |-> animationState,
       rafLive |-> rafLive, orphans |-> orphans,
       startTimeRef |-> startTimeRef, pausedAtRef |-> pausedAtRef,
       progressRef |-> progressRef, durationTotalRef |-> durationTotalRef,
       speedRef |-> speedRef, loopRef |-> loopRef, paths |-> paths,
       run |-> run, fired |-> NoCalls]

Commit(t) ==
  /\ stateRef' = t.stateRef
  /\ animationState' = t.animationState
  /\ rafLive' = t.rafLive
  /\ orphans' = t.orphans
  /\ startTimeRef' = t.startTimeRef
  /\ pausedAtRef' = t.pausedAtRef
  /\ progressRef' = t.progressRef
  /\ durationTotalRef' = t.durationTotalRef
  /\ speedRef' = t.speedRef
  /\ loopRef' = t.loopRef
  /\ paths' = t.paths
  /\ run' = t.run
  /\ fired' = t.fired

\* ------------------------------------------------------------ path records
\* A slot of the registry that holds no record.
NoPath == [reg |-> FALSE, delay |-> 0, duration |-> 0, progress |-> Zero,
           hasStarted |-> FALSE, hasCompleted |-> FALSE, isPaused |-> FALSE,
           nStart |-> 0, nComplete |-> 0, inRun |-> FALSE,
           fault |-> "none", threw |-> FALSE]

\* registryEntry of SignaturePath: progress 0, flags false.  nStart and
\* nComplete count the onDrawStart / onDrawComplete calls of the current
\* play-through; inRun says the record takes part in it.  fault names what
\* throws for this record: "style" (the easing or a style write of
\* updatePathVisual) or "onDrawFrame" (its per-frame callback); threw says
\* an exception left the last call made for the record.
NewRecord(cfg, joins) ==
  [reg |-> TRUE, delay |-> cfg[1], duration |-> cfg[2], progress |-> Zero,
   hasStarted |-> FALSE, hasCompleted |-> FALSE, isPaused |-> FALSE,
   nStart |-> 0, nComplete |-> 0, inRun |-> joins,
   fault |-> "none", threw |-> FALSE]

Registered(ps) == {id \in PathIds : ps[id].reg}

Bump(n) == IF n >= 2 THEN 2 ELSE n + 1

\* updatePathVisual that forgets "record.hasCompleted = true"
updatePathVisualRefire(r) ==
  LET s == RGt(r.progress, Zero) /\ ~r.hasStarted
      r1 == IF s THEN [r EXCEPT !.hasStarted = TRUE, !.nStart = Bump(@)] ELSE r
      c == RGe(r1.progress, One) /\ ~r1.hasCompleted
  IN IF c THEN [r1 EXCEPT !.nComplete = Bump(@)] ELSE r1

\* updatePathVisual without its try / catch
updatePathVisualNoCatch(r) ==
  IF r.fault = "style" THEN [r EXCEPT !.threw = TRUE]
  ELSE
  LET s == RGt(r.progress, Zero) /\ ~r.hasStarted
      r1 == IF s THEN [r EXCEPT !.hasStarted = TRUE, !.nStart = Bump(@)] ELSE r
      c == RGe(r1.progress, One) /\ ~r1.hasCompleted
  IN IF c THEN [r1 EXCEPT !.hasCompleted = TRUE, !.nComplete = Bump(@)] ELSE r1

\* updatePathVisual: the lifecycle callbacks (the style writes have no
\* effect on the timeline).  A throw in the try block happens before the
\* lifecycle part and is caught: the record stays as it is.
updatePathVisual(r) ==
  IF r.fault = "style" THEN r
  ELSE
  LET s == RGt(r.progress, Zero) /\ ~r.hasStarted
      r1 == IF s THEN [r EXCEPT !.hasStarted = TRUE, !.nStart = Bump(@)] ELSE r
      c == RGe(r1.progress, One) /\ ~r1.hasCompleted
  IN IF c THEN [r1 EXCEPT !.hasCompleted = TRUE, !.nComplete = Bump(@)] ELSE r1

\* (globalProgress * totalMs - delay) / duration, clamped to [0, 1];
\* a zero duration divides by zero: +-Infinity clamps, 0/0 is NaN.
localProgress(g, totalMs, r) ==
  LET num == RSub(RMul(g, Rat(totalMs)), Rat(r.delay))
  IN IF r.duration = 0
     THEN (IF RGt(num, Zero) THEN One ELSE IF RLt(num, Zero) THEN Zero ELSE NaN)
     ELSE Clamp01(RDiv(num, Rat(r.duration)))

\* an exception left a call made for some record
Threw(t) == \E id \in PathIds : t.paths[id].threw

\* The loop over the registry, taken to iterate "a" before "b".  A throw
\* of onDrawFrame is caught here and changes nothing; an exception that
\* leaves updatePathVisual would end the loop before the later records.
applyProgressToPaths(t, g) ==
  LET upd == [id \in PathIds |->
                IF t.paths[id].reg /\ ~t.paths[id].isPaused
                THEN updatePathVisual([t.paths[id] EXCEPT
                       !.progress =
                         localProgress(g, t.durationTotalRef, t.paths[id])])
                ELSE t.paths[id]]
  IN  [t EXCEPT !.paths = [id \in PathIds |->
         IF id = "b" /\ upd["a"].threw THEN t.paths[id] ELSE upd[id]]]

\* "record.hasStarted = false; record.hasCompleted = false" for every
\* record; a new pass of the play-through begins, so its counts restart.
resetFlags(ps) ==
  [id \in PathIds |->
     IF ps[id].reg
     THEN [ps[id] EXCEPT !.hasStarted = FALSE, !.hasCompleted = FALSE,
                         !.nStart = 0, !.nComplete = 0, !.inRun = TRUE]
     ELSE ps[id]]

Max2(a, b) == IF a > b THEN a ELSE b

RECURSIVE maxEnd(_, _)
maxEnd(ps, ids) ==
  IF ids = {} THEN 0
  ELSE LET id == CHOOSE x \in ids : TRUE
       IN Max2(ps[id].delay + ps[id].duration, maxEnd(ps, ids \ {id}))

computeGlobalDuration(ps) == Max2(ConfigDuration, maxEnd(ps, Registered(ps)))

\* ------------------------------------------------------------------ easing
\* the values normalizeEasing accepts by name
Easings == {"linear", "easeInOutQuad", "easeOutElastic"}

\* t < 0.5 ? 2 * t * t : -1 + (4 - 2 * t) * t
easeInOutQuad(t) ==
  IF RLt(t, <<1, 2>>) THEN RMul(Rat(2), RMul(t, t))
  ELSE RAdd(Rat(-1), RMul(RSub(Rat(4), RMul(Rat(2), t)), t))

RECURSIVE Pow2(_)
Pow2(k) == IF k = 0 THEN 1 ELSE 2 * Pow2(k - 1)

\* Math.pow(2, -10 * t) * Math.sin(((t - p / 4) * (2 * Math.PI)) / p) + 1
\* with p = 0.3, at the points t = j / 10 where both factors are rational:
\* the power is 2^-j and the sine's argument is (4j - 3) * pi / 6, whose
\* sine is -1 when j % 3 = 0 and 1/2 otherwise.
easeOutElastic(t) ==
  CASE 10 % t[2] = 0 ->
    LET j == (10 * t[1]) \div t[2]
        sine == IF j % 3 = 0 THEN Rat(-1) ELSE <<1, 2>>
    IN RAdd(RMul(<<1, Pow2(j)>>, sine), One)

\* record.easing(record.progress)
applyEasing(name, t) ==
  CASE name = "linear" -> t
    [] name = "easeInOutQuad" -> easeInOutQuad(t)
    [] name = "easeOutElastic" -> easeOutElastic(t)

\* values of record.length, as getTotalLength() measured it
PathLengths == {1, 100}

\* What the dash pattern shows: strokeDasharray is "total total" and
\* strokeDashoffset is total * (1 - easedProgress), so the drawn part is
\* total - offset = total * easedProgress.
drawnLength(r, easing, total) ==
  LET easedProgress == applyEasing(easing, r.progress)
  IN RSub(Rat(total), RMul(Rat(total), RSub(One, easedProgress)))

\* ------------------------------------------------------ timeline controller
Running(t) == t.stateRef \in {"playing", "looping"}

updateState(t, newState) ==
  IF t.stateRef = newState THEN t
  ELSE [t EXCEPT !.stateRef = newState, !.animationState = newState]

\* rafRef.current = requestAnimationFrame(tickLoop): a frame rafRef named
\* before and that is still pending stays pending without a handle.
requestFrame(t) ==
  [t EXCEPT !.orphans = IF t.rafLive THEN @ + 1 ELSE @, !.rafLive = TRUE]

\* if (rafRef.current) { cancelAnimationFrame(rafRef.current); ... }
cancelFrame(t) == [t EXCEPT !.rafLive = FALSE]

\* seek that leaves a completed timeline completed
seekNoDemote(t, x, n) ==
  LET clamped == Clamp01(x)
      targetElapsed ==
        RDiv(RMul(clamped, Rat(t.durationTotalRef)), t.speedRef)
      t1 == [t EXCEPT !.progressRef = clamped]
      t2 == IF Running(t1)
            THEN [t1 EXCEPT !.startTimeRef = RSub(Rat(n), targetElapsed)]
            ELSE IF t1.stateRef = "paused"
            THEN [t1 EXCEPT !.startTimeRef = RSub(Rat(n), targetElapsed),
                            !.pausedAtRef = Rat(n)]
            ELSE t1
  IN applyProgressToPaths(t2, clamped)

seek(t, x, n) ==
  LET clamped == Clamp01(x)
      targetElapsed ==
        RDiv(RMul(clamped, Rat(t.durationTotalRef)), t.speedRef)
      t1 == [t EXCEPT !.progressRef = clamped,
                      !.stateRef = IF @ = "completed" THEN "paused" ELSE @]
      t2 == IF Running(t1)
            THEN [t1 EXCEPT !.startTimeRef = RSub(Rat(n), targetElapsed)]
            ELSE IF t1.stateRef = "paused"
            THEN [t1 EXCEPT !.startTimeRef = RSub(Rat(n), targetElapsed),
                            !.pausedAtRef = Rat(n)]
            ELSE t1
  IN applyProgressToPaths(t2, clamped)

\* play that resumes from idle and completed instead of starting afresh
playNoRestart(t, n, rm) ==
  IF RespectReducedMotion /\ rm
  THEN [updateState(seek(t, One, n), "completed") EXCEPT !.run = FALSE]
  ELSE IF Running(t) THEN t
  ELSE LET t1 ==
             IF /\ t.stateRef = "paused"
                /\ t.pausedAtRef # Null
                /\ t.startTimeRef # Null
             THEN [t EXCEPT !.startTimeRef =
                     RSub(Rat(n), RSub(t.pausedAtRef, t.startTimeRef))]
             ELSE t
       IN requestFrame([updateState(t1, "playing") EXCEPT
                          !.fired.onPlay = @ + 1])

\* play that never looks at the reduced-motion preference
playNoShortcut(t, n, rm) ==
  IF Running(t) THEN t
  ELSE LET t1 ==
             IF /\ t.stateRef = "paused"
                /\ t.pausedAtRef # Null
                /\ t.startTimeRef # Null
             THEN [t EXCEPT !.startTimeRef =
                     RSub(Rat(n), RSub(t.pausedAtRef, t.startTimeRef))]
             ELSE IF t.stateRef \in {"completed", "idle"}
             THEN [t EXCEPT !.startTimeRef = Null, !.progressRef = Zero,
                            !.paths = resetFlags(t.paths), !.run = TRUE]
             ELSE t
       IN requestFrame([updateState(t1, "playing") EXCEPT
                          !.fired.onPlay = @ + 1])

play(t, n, rm) ==
  IF RespectReducedMotion /\ rm
  THEN [updateState(seek(t, One, n), "completed") EXCEPT !.run = FALSE]
  ELSE IF Running(t) THEN t
  ELSE LET t1 ==
             IF /\ t.stateRef = "paused"
                /\ t.pausedAtRef # Null
                /\ t.startTimeRef # Null
             THEN [t EXCEPT !.startTimeRef =
                     RSub(Rat(n), RSub(t.pausedAtRef, t.startTimeRef))]
             ELSE IF t.stateRef \in {"completed", "idle"}
             THEN [t EXCEPT !.startTimeRef = Null, !.progressRef = Zero,
                            !.paths = resetFlags(t.paths), !.run = TRUE]
             ELSE t
       IN requestFrame([updateState(t1, "playing") EXCEPT
                          !.fired.onPlay = @ + 1])

\* pause that does not record the pause timestamp
pauseNoStamp(t, n) ==
  IF ~Running(t) THEN t
  ELSE [updateState(cancelFrame(t), "paused") EXCEPT !.fired.onPause = @ + 1]

\* pause that leaves the frame rafRef names pending
pauseNoCancel(t, n) ==
  IF ~Running(t) THEN t
  ELSE [updateState([t EXCEPT !.pausedAtRef = Rat(n)], "paused")
          EXCEPT !.fired.onPause = @ + 1]

pause(t, n) ==
  IF ~Running(t) THEN t
  ELSE [updateState(cancelFrame([t EXCEPT !.pausedAtRef = Rat(n)]), "paused")
          EXCEPT !.fired.onPause = @ + 1]

toggle(t, n, rm) == IF Running(t) THEN pause(t, n) ELSE play(t, n, rm)

\* reset that keeps the start and pause timestamps
resetKeepStamps(t) ==
  LET t1 == updateState(cancelFrame(t), "idle")
  IN [t1 EXCEPT !.progressRef = Zero, !.run = FALSE,
                !.paths = [id \in PathIds |->
                   IF t.paths[id].reg
                   THEN updatePathVisual([t.paths[id] EXCEPT
                          !.progress = Zero, !.hasStarted = FALSE,
                          !.hasCompleted = FALSE, !.inRun = FALSE])
                   ELSE t.paths[id]]]

reset(t) ==
  LET t1 == updateState(cancelFrame(t), "idle")
  IN [t1 EXCEPT !.progressRef = Zero, !.startTimeRef = Null,
                !.pausedAtRef = Null, !.run = FALSE,
                !.paths = [id \in PathIds |->
                   IF t.paths[id].reg
                   THEN updatePathVisual([t.paths[id] EXCEPT
                          !.progress = Zero, !.hasStarted = FALSE,
                          !.hasCompleted = FALSE, !.inRun = FALSE])
                   ELSE t.paths[id]]]

clampSpeed(m) == MathMax(MinSpeed, MathMin(MaxSpeed, m))

\* setSpeed that stores the new speed without re-anchoring the start time
setSpeedNoAnchor(t, m, n) == [t EXCEPT !.speedRef = clampSpeed(m)]

setSpeed(t, m, n) ==
  LET newSpeed == clampSpeed(m)
      t1 == IF Running(t) /\ t.startTimeRef # Null
            THEN LET elapsed == RMul(RSub(Rat(n), t.startTimeRef), t.speedRef)
                 IN [t EXCEPT !.startTimeRef =
                       RSub(Rat(n), RDiv(elapsed, newSpeed))]
            ELSE t
  IN [t1 EXCEPT !.speedRef = newSpeed]

\* the value tickLoop computes from the frame timestamp n
tickProgress(t, n) ==
  LET start == IF t.startTimeRef = Null THEN Rat(n) ELSE t.startTimeRef
      elapsed == RMul(RSub(Rat(n), start), t.speedRef)
      totalMs == IF t.durationTotalRef = 0 THEN ConfigDuration
                 ELSE t.durationTotalRef
  IN Clamp01(RDiv(elapsed, Rat(totalMs)))

\* tickLoop whose loop branch leaves the paths' flags as they are
tickLoopKeepFlags(t, n) ==
  IF ~Running(t) THEN t
  ELSE
    LET progress == tickProgress(t, n)
        t1 == [t EXCEPT !.startTimeRef = IF @ = Null THEN Rat(n) ELSE @,
                        !.progressRef = progress]
        t2 == applyProgressToPaths(t1, progress)
    IN IF RGe(progress, One)
       THEN IF t.loopRef
            THEN requestFrame(
                   [updateState(t2, "looping") EXCEPT
                      !.startTimeRef = Rat(n), !.progressRef = Zero,
                      !.fired.onComplete = @ + 1])
            ELSE LET t3 == updateState(t2, "completed")
                 IN [t3 EXCEPT
                      !.fired.onComplete = @ + 1,
                      !.progressRef = One, !.startTimeRef = Null,
                      !.pausedAtRef = Null,
                      !.paths = [id \in PathIds |->
                         IF t2.paths[id].reg
                         THEN updatePathVisual(
                                [t2.paths[id] EXCEPT !.progress = One])
                         ELSE t2.paths[id]]]
       ELSE requestFrame(t2)

\* tickLoop whose completion branch does not move the paths to 1
tickLoopSkipPaused(t, n) ==
  IF ~Running(t) THEN t
  ELSE
    LET progress == tickProgress(t, n)
        t1 == [t EXCEPT !.startTimeRef = IF @ = Null THEN Rat(n) ELSE @,
                        !.progressRef = progress]
        t2 == applyProgressToPaths(t1, progress)
    IN IF RGe(progress, One)
       THEN IF t.loopRef
            THEN requestFrame(
                   [updateState(t2, "looping") EXCEPT
                      !.startTimeRef = Rat(n), !.progressRef = Zero,
                      !.paths = resetFlags(t2.paths),
                      !.fired.onComplete = @ + 1])
            ELSE LET t3 == updateState(t2, "completed")
                 IN [t3 EXCEPT
                      !.fired.onComplete = @ + 1,
                      !.progressRef = One, !.startTimeRef = Null,
                      !.pausedAtRef = Null]
       ELSE requestFrame(t2)

\* tickLoop(now), the frame that called it already taken off the queue
tickLoop(t, n) ==
  IF ~Running(t) THEN t
  ELSE
    LET progress == tickProgress(t, n)
        t1 == [t EXCEPT !.startTimeRef = IF @ = Null THEN Rat(n) ELSE @,
                        !.progressRef = progress]
        t2 == applyProgressToPaths(t1, progress)
    IN IF Threw(t2) THEN t2
       ELSE IF RGe(progress, One)
       THEN IF t.loopRef
            THEN requestFrame(
                   [updateState(t2, "looping") EXCEPT
                      !.startTimeRef = Rat(n), !.progressRef = Zero,
                      !.paths = resetFlags(t2.paths),
                      !.fired.onComplete = @ + 1])
            ELSE LET t3 == updateState(t2, "completed")
                 IN [t3 EXCEPT
                      !.fired.onComplete = @ + 1,
                      !.progressRef = One, !.startTimeRef = Null,
                      !.pausedAtRef = Null,
                      !.paths = [id \in PathIds |->
                         IF t2.paths[id].reg
                         THEN updatePathVisual(
                                [t2.paths[id] EXCEPT !.progress = One])
                         ELSE t2.paths[id]]]
       ELSE requestFrame(t2)

registerPath(t, id, cfg) ==
  LET ps == [t.paths EXCEPT ![id] =
               NewRecord(cfg, t.run /\ t.stateRef # "completed")]
  IN [t EXCEPT !.paths = ps, !.durationTotalRef = computeGlobalDuration(ps)]

\* unregisterPath that does not recompute the total duration
unregisterPathStale(t, id) ==
  [t EXCEPT !.paths[id] = NoPath]

unregisterPath(t, id) ==
  LET ps == [t.paths EXCEPT ![id] = NoPath]
  IN [t EXCEPT !.paths = ps, !.durationTotalRef = computeGlobalDuration(ps)]

\* the per-path controller of useSignaturePath
pathPause(t, id) == [t EXCEPT !.paths[id].isPaused = TRUE]

pathPlay(t, id, n, rm) ==
  LET t1 == [t EXCEPT !.paths[id].isPaused = FALSE]
  IN IF t1.animationState \in {"playing", "looping"} THEN t1
     ELSE play(t1, n, rm)

pathReset(t, id) ==
  [t EXCEPT !.paths[id] = updatePathVisual([@ EXCEPT
     !.progress = Zero, !.hasStarted = FALSE, !.hasCompleted = FALSE,
     !.isPaused = FALSE, !.inRun = FALSE])]

pathSeek(t, id, x) ==
  [t EXCEPT !.paths[id] = updatePathVisual([@ EXCEPT !.progress = Clamp01(x)])]

\* ----------------------------------------------------------------- export
\* One export call.  pc is the await the call is suspended at; wasPlaying
\* and currentProgress are the constants of that name; i is the loop index
\* of exportGif; value is what exportSvg resolved with and cause the way
\* its body ended; stateBefore is stateRef.current when the export was called.
NoExport == [kind |-> "none", pc |-> "none", wasPlaying |-> FALSE,
             currentProgress |-> Zero, i |-> 0, frameCount |-> 0,
             result |-> "none", value |-> "none", cause |-> "none",
             captured |-> <<>>, stateBefore |-> "idle"]

FrameCounts == {1, 2}

\* the progress of every frame but the first laid over frameCount + 1 steps
frameProgressShort(i, frameCount) == Norm(i, frameCount + 1)

\* const progress = i / frameCount
frameProgress(i, frameCount) == Norm(i, frameCount)

\* "seek(currentProgress); if (wasPlaying) play();"
restore(t, e, n, rm) ==
  LET t1 == seek(t, e.currentProgress, n)
  IN IF e.wasPlaying THEN play(t1, n, rm) ELSE t1

settle(e, how) == [e EXCEPT !.pc = "done", !.result = how]

\* the ways the body of exportSvg can end: no root element, no SVG
\* element, an exception in any later step, or the serialised markup
SvgOutcomes == {"noRoot", "noSvg", "throws", "ok"}

\* exportSvg whose catch block rejects
exportSvgRejects(outcome) ==
  LET e == [NoExport EXCEPT !.kind = "svg", !.cause = outcome]
  IN CASE outcome \in {"noRoot", "noSvg"} ->
            [settle(e, "resolved") EXCEPT !.value = ""]
       [] outcome = "throws" -> settle(e, "rejected")
       [] outcome = "ok" -> [settle(e, "resolved") EXCEPT !.value = "markup"]

\* exportSvg runs in one synchronous step inside the promise executor
exportSvg(outcome) ==
  LET e == [NoExport EXCEPT !.kind = "svg", !.cause = outcome]
  IN CASE outcome \in {"noRoot", "noSvg"} ->
            [settle(e, "resolved") EXCEPT !.value = ""]
       [] outcome = "throws" -> [settle(e, "resolved") EXCEPT !.value = ""]
       [] outcome = "ok" -> [settle(e, "resolved") EXCEPT !.value = "markup"]

\* ------------------------------------------------------- pure functions
NoEnc == [frames |-> <<>>, width |-> 0, height |-> 0, delay |-> 0,
          quality |-> 0, gif |-> <<>>, table |-> <<>>,
          fps |-> 0, duration |-> 0]
NoLzw == [data |-> <<>>, minCodeSize |-> 0, bytes |-> <<>>]
NoNoise == [seed |-> 0, state |-> 0, calls |-> <<>>]

\* a[i] of a zero-based JavaScript array held as a sequence
At(a, i) == a[i + 1]

RECURSIVE Concat(_)
\* the parts of a buffer written one after the other (Uint8Array.set)
Concat(parts) ==
  IF parts = <<>> THEN <<>> ELSE Head(parts) \o Concat(Tail(parts))

\* colors.sort by R + G + B (Array.prototype.sort is stable: equal sums keep
\* their order), then evenly spaced samples
quantizeColors(colors, maxColors) ==
  LET sum(c) == ((c \div 65536) % 256) + ((c \div 256) % 256) + (c % 256)
      keyed == [i \in 1 .. Len(colors) |-> <<colors[i], i>>]
      sorted == SortSeq(keyed, LAMBDA a, b :
                  \/ sum(a[1]) < sum(b[1])
                  \/ sum(a[1]) = sum(b[1]) /\ a[2] < b[2])
  IN IF Len(colors) <= maxColors THEN colors
     ELSE [i \in 1 .. maxColors |->
             At(sorted, ((i - 1) * Len(colors)) \div maxColors)[1]]

\* sampleFrame that takes a pixel of alpha 128 as well
sampleFrameFaint(data, i, samples, colors) ==
  LET scan[j \in Nat, stop \in Nat, cs \in Seq(Nat)] ==
        IF j >= stop \/ j >= Len(data) THEN <<j, cs>>
        ELSE LET c == At(data, j) * 65536 + At(data, j + 1) * 256
                        + At(data, j + 2)
                 add == At(data, j + 3) >= 128
                          /\ \A k \in DOMAIN cs : cs[k] # c
             IN scan[j + 4 * samples, stop, IF add THEN Append(cs, c) ELSE cs]
      loop[j \in Nat, cs \in Seq(Nat)] ==
        IF j >= Len(data) THEN cs
        ELSE LET st == scan[j, j + 64 * samples, cs] IN loop[st[1], st[2]]
  IN loop[i, colors]

\* the colours of one frame, every samples-th pixel, in order of first
\* appearance (a Set keeps insertion order); only pixels with alpha > 128.
\* The loop is taken in runs of 16 iterations.
sampleFrame(data, i, samples, colors) ==
  LET scan[j \in Nat, stop \in Nat, cs \in Seq(Nat)] ==
        IF j >= stop \/ j >= Len(data) THEN <<j, cs>>
        ELSE LET c == At(data, j) * 65536 + At(data, j + 1) * 256
                        + At(data, j + 2)
                 add == At(data, j + 3) > 128
                          /\ \A k \in DOMAIN cs : cs[k] # c
             IN scan[j + 4 * samples, stop, IF add THEN Append(cs, c) ELSE cs]
      loop[j \in Nat, cs \in Seq(Nat)] ==
        IF j >= Len(data) THEN cs
        ELSE LET st == scan[j, j + 64 * samples, cs] IN loop[st[1], st[2]]
  IN loop[i, colors]

RECURSIVE sampleFrames(_, _, _)
sampleFrames(frames, samples, colors) ==
  IF frames = <<>> THEN colors
  ELSE sampleFrames(Tail(frames), samples,
                    sampleFrame(Head(frames).data, 0, samples, colors))

\* 256 RGB triples: the sampled colours, then black up to 256 entries
buildColorTable(frames, quality) ==
  LET samples == Max2(1, 10 \div quality)
      colors == sampleFrames(frames, samples, <<>>)
      cut == IF Len(colors) > 256 THEN quantizeColors(colors, 256) ELSE colors
      palette == [i \in 1 .. 256 |-> IF i <= Len(cut) THEN cut[i] ELSE 0]
  IN [k \in 1 .. 768 |->
        LET color == palette[(k - 1) \div 3 + 1]
        IN CASE (k - 1) % 3 = 0 -> (color \div 65536) % 256
             [] (k - 1) % 3 = 1 -> (color \div 256) % 256
             [] (k - 1) % 3 = 2 -> color % 256]

\* let minDist = Infinity
Infinity == -1

\* the squared distance of (r, g, b) to palette entry i
colorDist(r, g, b, colorTable, i) ==
  (r - At(colorTable, i * 3)) * (r - At(colorTable, i * 3))
  + (g - At(colorTable, i * 3 + 1)) * (g - At(colorTable, i * 3 + 1))
  + (b - At(colorTable, i * 3 + 2)) * (b - At(colorTable, i * 3 + 2))

\* the loop of findNearestColor: scan runs it over the entries i .. stop - 1
\* from the minDist and nearest reached so far, and the 256 iterations are
\* taken in index order as 16 such runs
findNearestColor(r, g, b, colorTable) ==
  LET scan[i \in 0 .. 256, stop \in 0 .. 256, minDist \in Int,
           nearest \in 0 .. 255] ==
        IF i >= stop THEN <<minDist, nearest>>
        ELSE LET dist == colorDist(r, g, b, colorTable, i)
             IN IF minDist = Infinity \/ dist < minDist
                THEN scan[i + 1, stop, dist, i]
                ELSE scan[i + 1, stop, minDist, nearest]
      loop[k \in 0 .. 16, minDist \in Int, nearest \in 0 .. 255] ==
        IF k >= 16 THEN nearest
        ELSE LET st == scan[16 * k, 16 * k + 16, minDist, nearest]
             IN loop[k + 1, st[1], st[2]]
  IN loop[0, Infinity, 0]

\* convertToIndexed that looks up transparent pixels as well
convertToIndexedOpaque(frame, colorTable) ==
  [k \in 1 .. frame.width * frame.height |->
     findNearestColor(At(frame.data, (k - 1) * 4),
                      At(frame.data, (k - 1) * 4 + 1),
                      At(frame.data, (k - 1) * 4 + 2), colorTable)]

convertToIndexed(frame, colorTable) ==
  [k \in 1 .. frame.width * frame.height |->
     LET i == k - 1
     IN IF At(frame.data, i * 4 + 3) < 128 THEN 0
        ELSE findNearestColor(At(frame.data, i * 4), At(frame.data, i * 4 + 1),
                              At(frame.data, i * 4 + 2), colorTable)]

\* dict.has(s): the single indices below clearCode and the entries added
dictHas(entries, clearCode, s) ==
  \/ Len(s) = 1 /\ s[1] < clearCode
  \/ \E k \in DOMAIN entries : entries[k] = s

\* dict.get(s): entry k was given the code endCode + k
dictGet(entries, clearCode, s) ==
  IF Len(s) = 1 THEN s[1]
  ELSE clearCode + 1 + CHOOSE k \in DOMAIN entries : entries[k] = s

\* the loop of lzwEncode over data[i ..]
RECURSIVE lzwLoop(_, _, _, _)
lzwLoop(data, i, clearCode, st) ==
  IF i >= Len(data) THEN st
  ELSE LET char == <<At(data, i)>>
           combined == st.buffer \o char
       IN IF dictHas(st.entries, clearCode, combined)
          THEN lzwLoop(data, i + 1, clearCode, [st EXCEPT !.buffer = combined])
          ELSE LET out == Append(st.output,
                                 dictGet(st.entries, clearCode, st.buffer))
                   grow == st.nextCode < 4096
                   nextCode == IF grow THEN st.nextCode + 1 ELSE st.nextCode
                   wider == grow /\ nextCode >= Pow2(st.codeSize)
                              /\ st.codeSize < 12
               IN lzwLoop(data, i + 1, clearCode,
                    [output |-> out,
                     buffer |-> char,
                     entries |-> IF grow THEN Append(st.entries, combined)
                                 ELSE st.entries,
                     nextCode |-> nextCode,
                     codeSize |-> IF wider THEN st.codeSize + 1
                                  ELSE st.codeSize])

\* the codes lzwEncode hands to packLZW
lzwCodes(data, minCodeSize) ==
  LET clearCode == Pow2(minCodeSize)
      endCode == clearCode + 1
      st == lzwLoop(data, 0, clearCode,
                    [output |-> <<clearCode>>, buffer |-> <<>>,
                     entries |-> <<>>, nextCode |-> endCode + 1,
                     codeSize |-> minCodeSize + 1])
      last == IF st.buffer # <<>>
              THEN Append(st.output, dictGet(st.entries, clearCode, st.buffer))
              ELSE st.output
  IN Append(last, endCode)

\* a | b of two non-negative integers below 2^31
RECURSIVE BitOr(_, _)
BitOr(a, b) ==
  IF a = 0 THEN b
  ELSE IF b = 0 THEN a
  ELSE (IF a % 2 = 1 \/ b % 2 = 1 THEN 1 ELSE 0)
         + 2 * BitOr(a \div 2, b \div 2)

\* for (const code of codes); drainBits is its while (bitCount >= 8):
\* bytes leave the bit buffer, full blocks of 255 bytes leave blockData
RECURSIVE packLoop(_, _, _)
packLoop(codes, minCodeSize, st) ==
  IF codes = <<>> THEN st
  ELSE LET RECURSIVE drainBits(_)
           drainBits(s) ==
             IF s.bitCount < 8 THEN s
             ELSE LET block == Append(s.blockData, s.bitBuffer % 256)
                      full == Len(block) = 255
                  IN drainBits([s EXCEPT
                       !.bitBuffer = @ \div 256,
                       !.bitCount = @ - 8,
                       !.blockData = IF full THEN <<>> ELSE block,
                       !.result = IF full THEN @ \o <<255>> \o block ELSE @])
           code == Head(codes)
           s1 == drainBits([st EXCEPT
                   !.bitBuffer = BitOr(@, code * Pow2(st.bitCount)),
                   !.bitCount = @ + st.codeSize])
           codeSize ==
             IF code = Pow2(minCodeSize) THEN minCodeSize + 1
             ELSE IF code >= Pow2(s1.codeSize) - 1 /\ s1.codeSize < 12
                  THEN s1.codeSize + 1
                  ELSE s1.codeSize
       IN packLoop(Tail(codes), minCodeSize, [s1 EXCEPT !.codeSize = codeSize])

packLZW(codes, minCodeSize) ==
  LET st == packLoop(codes, minCodeSize,
                     [result |-> <<minCodeSize>>, bitBuffer |-> 0,
                      bitCount |-> 0, codeSize |-> minCodeSize + 1,
                      blockData |-> <<>>])
      blockData == IF st.bitCount > 0
                   THEN Append(st.blockData, st.bitBuffer % 256)
                   ELSE st.blockData
      final == IF Len(blockData) > 0
               THEN st.result \o <<Len(blockData)>> \o blockData
               ELSE st.result
  IN Append(final, 0)

lzwEncode(data, minCodeSize) == packLZW(lzwCodes(data, minCodeSize), minCodeSize)

encodeFrame(frame, colorTable, delay, width, height) ==
  LET gce == <<33, 249, 4, 8, delay % 256, (delay \div 256) % 256, 0, 0>>
      descriptor == <<44, 0, 0, 0, 0, width % 256, (width \div 256) % 256,
                      height % 256, (height \div 256) % 256, 0>>
      indexed == convertToIndexed(frame, colorTable)
      compressed == lzwEncode(indexed, 8)
  IN Concat(<<gce, descriptor, compressed>>)

\* encodeGIF that leaves out the looping extension
encodeGIFNoLoop(frames, delay, width, height, quality) ==
  LET colorTable == buildColorTable(frames, quality)
  IN <<71, 73, 70, 56, 57, 97>>
       \o <<width % 256, (width \div 256) % 256,
            height % 256, (height \div 256) % 256, 247, 0, 0>>
       \o colorTable
       \o Concat([i \in DOMAIN frames |->
                    encodeFrame(frames[i], colorTable, delay, width, height)])
       \o <<59>>

encodeGIF(frames, delay, width, height, quality) ==
  LET header == <<71, 73, 70, 56, 57, 97>>
      lsd == <<width % 256, (width \div 256) % 256,
               height % 256, (height \div 256) % 256, 247, 0, 0>>
      colorTable == buildColorTable(frames, quality)
      netscape == <<33, 255, 11, 78, 69, 84, 83, 67, 65, 80, 69, 50, 46, 48,
                    3, 1, 0, 0, 0>>
      encodedFrames == [i \in DOMAIN frames |->
                          encodeFrame(frames[i], colorTable, delay, width,
                                      height)]
      trailer == <<59>>
  IN Concat(<<header, lsd, colorTable, netscape>>)
       \o Concat(encodedFrames) \o trailer

\* ----- 32-bit integers and doubles of createNoise ------------------------
\* A magnitude is six limbs of twelve bits, least significant first; TLC's
\* own integers stop at 2^31 - 1.

\* carries the coefficients d[1..6] into limbs; over is the carry out of
\* the sixth limb (negative when the coefficients sum to a negative number)
Carry(d) ==
  LET c[i \in 0 .. 6] == IF i = 0 THEN 0 ELSE (d[i] + c[i - 1]) \div 4096
  IN  [limbs |-> [i \in 1 .. 6 |-> (d[i] + c[i - 1]) % 4096], over |-> c[6]]

\* the magnitude of a 32-bit integer
Mag(v) ==
  LET m == IF v >= 0 THEN v ELSE IF v = -2147483647 - 1 THEN 0 ELSE -v
  IN  IF v = -2147483647 - 1 THEN <<0, 0, 128, 0, 0, 0>>
      ELSE <<m % 4096, (m \div 4096) % 4096, m \div 16777216, 0, 0, 0>>

\* the coefficients of the product of two magnitudes below 2^36
MulMag(a, c) ==
  <<a[1] * c[1],
    a[1] * c[2] + a[2] * c[1],
    a[1] * c[3] + a[2] * c[2] + a[3] * c[1],
    a[2] * c[3] + a[3] * c[2],
    a[3] * c[3],
    0>>

\* Number::multiply, Number::add: the nearest double of an integer
\* magnitude below 2^64, ties to the even significand of 53 bits
Float64(m) ==
  LET h == IF \E i \in 1 .. 6 : m[i] # 0
             THEN CHOOSE i \in 1 .. 6 : m[i] # 0 /\ \A j \in i + 1 .. 6 : m[j] = 0
             ELSE 0
      len == IF h = 0 THEN 0 ELSE CHOOSE k \in 1 .. 12 : m[h] \div (2 ^ k) = 0 /\ m[h] \div (2 ^ (k - 1)) # 0
      e == 12 * (h - 1) + len - 53
      r == m[1] % (2 ^ e)
      up == \/ 2 * r > 2 ^ e
            \/ 2 * r = 2 ^ e /\ (m[1] \div (2 ^ e)) % 2 = 1
  IN  IF h = 0 \/ e <= 0 THEN m
      ELSE Carry([m EXCEPT ![1] = @ - r + (IF up THEN 2 ^ e ELSE 0)]).limbs

\* ToInt32 of the integer neg ? -m : m
ToInt32(neg, m) ==
  LET l == m[1] + m[2] * 4096 + (m[3] % 128) * 16777216
      b == (m[3] \div 128) % 2
  IN  IF ~neg THEN (IF b = 1 THEN l - 2147483647 - 1 ELSE l)
      ELSE IF b = 0 THEN -l
      ELSE IF l = 0 THEN -2147483647 - 1
      ELSE (2147483647 - l) + 1

\* a >> k of a 32-bit integer
Sar(a, k) == a \div (2 ^ k)

\* a ^ b of two 32-bit integers
BitXor32(a, b) ==
  LET bit(v, i) == (v \div (2 ^ i)) % 2
      low[i \in 0 .. 31] ==
        IF i = 0 THEN 0
        ELSE low[i - 1] + (IF bit(a, i - 1) # bit(b, i - 1) THEN 2 ^ (i - 1) ELSE 0)
  IN  IF (a < 0) # (b < 0) THEN low[31] - 2147483647 - 1 ELSE low[31]

\* t % m of a 32-bit integer t: the sign of the dividend
JsRem(t, m) == IF t < 0 /\ t % m # 0 THEN (t % m) - m ELSE t % m

\* t = t ^ (t >> 16), line 400
xorshift16Off(t) == t
xorshift16(t) == BitXor32(t, Sar(t, 16))

\* the function createNoise returns, applied to x = <<n, d>> (d \in {1, 2})
\* or NaN while its variable state holds st: the new state and the value
\* returned, in thousandths
noiseFn(st, x) ==
  LET n2 == x[1] * (2 \div x[2])                     \* 2 * x
      w  == MulMag(Mag(n2), Mag(374761393))
      s2 == [i \in 1 .. 6 |-> 2 * Mag(st)[i]]
      d  == [i \in 1 .. 6 |-> (IF n2 < 0 THEN -w[i] ELSE w[i])
                            + (IF st < 0 THEN -s2[i] ELSE s2[i])]
      neg == Carry(d).over < 0
      t2 == Carry([i \in 1 .. 6 |-> IF neg THEN -d[i] ELSE d[i]]).limbs
      \* the integer part of t = state + x * 374761393
      tr == [i \in 1 .. 6 |->
               (t2[i] \div 2) + (IF i < 6 THEN (t2[i + 1] % 2) * 2048 ELSE 0)]
      t1 == IF IsNaN(x) THEN 0 ELSE ToInt32(neg, tr)
      a  == BitXor32(t1, Sar(t1, 13))
      p  == Float64(Carry(MulMag(Mag(a), Mag(1274126177))).limbs)
      b  == ToInt32(a < 0, p)
      t  == xorshift16(b)
  IN  [state |-> t, value |-> 2 * JsRem(t, 1000) - 1000]

\* createNoise(seed): let state = seed || 1; no call made yet
createNoise(seed) ==
  [seed |-> seed, state |-> IF seed = 0 THEN 1 ELSE seed, calls |-> <<>>]

\* ------------------------------------------------- useViewportAutoPlay
\* The config, the four refs, and the observer the effect created: the
\* animationState its controller reads, whether its first callback is
\* still to come, whether the element is in the viewport.  completed,
\* called and after are not in the code: a render has seen the animation
\* completed; the controller methods the last callback or timer called;
\* completed as it was when that callback or timer ran.
NoViewport ==
  [enabled |-> FALSE, onEnter |-> "resume", onLeave |-> "pause",
   once |-> FALSE, delay |-> 0,
   hasStartedRef |-> FALSE, hasCompletedOnceRef |-> FALSE,
   timeoutRef |-> FALSE, previouslyPausedRef |-> FALSE,
   controller |-> "idle", initial |-> FALSE, inView |-> FALSE,
   completed |-> FALSE, called |-> {}, after |-> FALSE]

\* if (!controller.isCompleted || onEnter === "restart" || !once)
\*   { controller.play(); hasStartedRef.current = true; }
viewportPlay(v, t, n, rm) ==
  IF v.controller # "completed" \/ v.onEnter = "restart" \/ ~v.once
  THEN [vp |-> [v EXCEPT !.hasStartedRef = TRUE,
                         !.called = @ \cup {"play"}],
        tl |-> play(t, n, rm)]
  ELSE [vp |-> v, tl |-> t]

\* the observer callback on one entry
observerEntry(v, t, isIntersecting, meetsThreshold, n, rm) ==
  LET v0 == [v EXCEPT !.timeoutRef = FALSE, !.called = {},
                      !.after = v.completed]
      isPlaying == v.controller \in {"playing", "looping"}
      restart == v.onEnter = "restart"
                   \/ (~v.previouslyPausedRef /\ ~v.hasStartedRef)
      v1 == IF restart THEN [v0 EXCEPT !.called = {"reset"}] ELSE v0
      t1 == IF restart THEN reset(t) ELSE t
      v2 == [v0 EXCEPT !.hasCompletedOnceRef =
               @ \/ (v.controller = "completed" /\ v.hasStartedRef)]
  IN  IF isIntersecting
      THEN IF \/ ~meetsThreshold
              \/ v.once /\ v.hasCompletedOnceRef
              \/ isPlaying
           THEN [vp |-> v0, tl |-> t]
           ELSE IF v.delay > 0
           THEN [vp |-> [v1 EXCEPT !.timeoutRef = TRUE,
                                   !.previouslyPausedRef = FALSE],
                 tl |-> t1]
           ELSE LET r == viewportPlay(v1, t1, n, rm)
                IN  [vp |-> [r.vp EXCEPT !.previouslyPausedRef = FALSE],
                     tl |-> r.tl]
      ELSE IF isPlaying \/ v.previouslyPausedRef
           THEN CASE v.onLeave = "pause" ->
                       [vp |-> [v2 EXCEPT !.previouslyPausedRef = TRUE,
                                          !.called = {"pause"}],
                        tl |-> pause(t, n)]
                  [] v.onLeave = "reset" ->
                       [vp |-> [v2 EXCEPT !.previouslyPausedRef = FALSE,
                                          !.hasStartedRef = FALSE,
                                          !.called = {"reset"}],
                        tl |-> reset(t)]
                  [] v.onLeave = "continue" -> [vp |-> v2, tl |-> t]
           ELSE [vp |-> v2, tl |-> t]

\* ------------------------------------------------------------------- Init
InitApp(Speeds, Loops, Reduced) ==
  /\ now = 0
  /\ stateRef = "idle"
  /\ animationState = "idle"
  /\ rafLive = FALSE
  /\ orphans = 0
  /\ startTimeRef = Null
  /\ pausedAtRef = Null
  /\ progressRef = Zero
  /\ durationTotalRef = ConfigDuration
  /\ speedProp \in Speeds
  /\ speedRef = speedProp
  /\ loopRef \in Loops
  /\ paths = [id \in PathIds |-> NoPath]
  /\ reducedMotion \in Reduced
  /\ speedOps = 0
  /\ run = FALSE
  /\ fired = NoCalls
  /\ pauseSnap = Null
  /\ lastOp = "other"
  /\ exp = NoExport
  /\ liveUrls = 0

\* ------------------------------------------------------------ RAF manager
\* globalRAF (raf-manager): the callbacks Map in insertion order, rafId, and
\* lastTime.  The browser's list of animation-frame requests is "pending";
\* while a frame runs, the requests it still has to run are "firing".  A
\* request's handle is a positive integer; rafId is 0 where the code has null.

\* A Map keeps a deleted entry's slot until no iteration is under way, so an
\* entry removed during forEach is skipped and one added during it is visited.
NoRaf ==
  [callbacks |-> <<>>, rafId |-> 0, lastTime |-> 0,
   pending |-> <<>>, firing |-> <<>>, closures |-> {},
   calls |-> <<>>, atStart |-> <<>>, framed |-> FALSE]

RafIds == {"a", "b"}
\* what a subscribed callback does when it is invoked; "subscribe" and "swap"
\* do it on their first invocation only
RafActs == {"none", "throw", "unsubscribe", "subscribe", "swap", "destroy"}
Other(id) == IF id = "a" THEN "b" ELSE "a"

Range(s) == {s[i] : i \in DOMAIN s}
LiveIds(m) ==
  LET live == SelectSeq(m.callbacks, LAMBDA e : e.live)
  IN [i \in DOMAIN live |-> live[i].id]
\* this.callbacks.size
Size(m) == Len(LiveIds(m))

\* requestAnimationFrame(this.tick): the handle is one no request holds
requestAnimationFrame(m) ==
  LET used == Range(m.pending) \cup Range(m.firing) \cup {m.rafId}
      h == CHOOSE k \in 1..(3 * MaxPending + 4) :
             k \notin used /\ \A j \in 1..(k - 1) : j \in used
  IN [m EXCEPT !.pending = Append(@, h), !.rafId = h]

cancelAnimationFrame(m, h) ==
  [m EXCEPT !.pending = SelectSeq(@, LAMBDA k : k # h),
            !.firing = SelectSeq(@, LAMBDA k : k # h)]

stop(m) ==
  LET m1 == IF m.rafId # 0
            THEN [cancelAnimationFrame(m, m.rafId) EXCEPT !.rafId = 0]
            ELSE m
  IN [m1 EXCEPT !.lastTime = 0]

\* this.callbacks.delete(id)
MapDelete(m, id) ==
  [m EXCEPT !.callbacks =
     [i \in DOMAIN @ |-> IF @[i].id = id THEN [@[i] EXCEPT !.live = FALSE]
                         ELSE @[i]]]

\* this.callbacks.set(id, callback): an existing key keeps its place
MapSet(m, id, act) ==
  IF \E i \in DOMAIN m.callbacks : m.callbacks[i].live /\ m.callbacks[i].id = id
  THEN [m EXCEPT !.callbacks =
          [i \in DOMAIN @ |-> IF @[i].live /\ @[i].id = id
                              THEN [@[i] EXCEPT !.act = act] ELSE @[i]]]
  ELSE [m EXCEPT !.callbacks = Append(@, [id |-> id, act |-> act, live |-> TRUE])]

\* the function subscribe returned
unsubscribe(m, id) ==
  LET m1 == MapDelete(m, id)
  IN IF Size(m1) = 0 THEN stop(m1) ELSE m1

destroy(m) ==
  stop([m EXCEPT !.callbacks = [i \in DOMAIN @ |-> [@[i] EXCEPT !.live = FALSE]]])

RECURSIVE tick(_, _)
RECURSIVE forEach(_, _, _)
RECURSIVE callback(_, _, _)
RECURSIVE subscribe(_, _, _, _)

start(m, time) == tick([m EXCEPT !.lastTime = time], time)

subscribe(m, id, act, time) ==
  LET m1 == [MapSet(m, id, act) EXCEPT !.closures = @ \cup {id}]
  IN IF m1.rafId = 0 THEN start(m1, time) ELSE m1

\* callbacks[i] is invoked; what it throws is caught by forEach's try
callback(m, i, time) ==
  LET e == m.callbacks[i]
      m1 == [m EXCEPT !.calls = Append(@, e.id)]
      once == [m1 EXCEPT !.callbacks[i].act = "none"]
  IN CASE e.act = "unsubscribe" -> unsubscribe(m1, e.id)
       [] e.act = "subscribe" -> subscribe(once, Other(e.id), "none", time)
       [] e.act = "swap" ->
            subscribe(unsubscribe(once, e.id), Other(e.id), "none", time)
       [] e.act = "destroy" -> destroy(m1)
       [] OTHER -> m1

forEach(m, i, time) ==
  IF i > Len(m.callbacks) THEN m
  ELSE IF m.callbacks[i].live THEN forEach(callback(m, i, time), i + 1, time)
  ELSE forEach(m, i + 1, time)

tick(m, time) ==
  LET m1 == forEach([m EXCEPT !.lastTime = time], 1, time)
  IN IF Size(m1) > 0 THEN requestAnimationFrame(m1) ELSE m1

\* the frame's requests run in the order they were made; one cancelled
\* meanwhile does not run
RECURSIVE runFrame(_, _)
runFrame(m, time) ==
  IF m.firing = <<>> THEN m
  ELSE runFrame(tick([m EXCEPT !.firing = Tail(@)], time), time)

\* the call stack is empty again: the Map drops the deleted entries
Returned(m) ==
  [m EXCEPT !.callbacks = SelectSeq(@, LAMBDA e : e.live)]
Called(m) == [m EXCEPT !.calls = <<>>, !.atStart = <<>>, !.framed = FALSE]

RafSet(m) ==
  /\ Len(m.pending) <= MaxPending
  /\ raf' = Returned(m)
  /\ UNCHANGED <<appVars, enc, lzw, noise>>

RafSubscribe ==
  \E id \in RafIds, act \in RafActs :
    RafSet(subscribe(Called(raf), id, act, now))

RafUnsubscribe ==
  \E id \in raf.closures : RafSet(unsubscribe(Called(raf), id))

RafDestroy == RafSet(destroy(Called(raf)))

RafFrame ==
  /\ raf.pending # <<>>
  /\ RafSet(runFrame([raf EXCEPT !.firing = raf.pending, !.pending = <<>>,
                                 !.calls = <<>>, !.atStart = LiveIds(raf),
                                 !.framed = TRUE], now))

\* no pure function has been called, viewport autoplay is off
InitPure ==
  /\ enc = NoEnc
  /\ lzw = NoLzw
  /\ noise = NoNoise
  /\ vp = NoViewport
  /\ raf = NoRaf

InitWith(Speeds, Loops, Reduced) ==
  InitApp(Speeds, Loops, Reduced) /\ InitPure

Init == InitWith(SpeedProps, BOOLEAN, BOOLEAN)

\* ---------------------------------------------------------------- actions
\* every action is bounded so that at most MaxOrphans unnamed frames pend
Apply(t) == t.orphans <= MaxOrphans /\ Commit(t)

envSame ==
  /\ lastOp' = "other"
  /\ UNCHANGED <<now, speedProp, reducedMotion, speedOps, exp, liveUrls, vp, pureVars>>

Advance ==
  /\ now < MaxNow
  /\ now' = now + 1
  /\ pauseSnap' = IF Running(TL) THEN Null ELSE pauseSnap
  /\ lastOp' = "other"
  /\ UNCHANGED <<tlVars, speedProp, reducedMotion, speedOps, exp, liveUrls, vp, pureVars>>

\* the environment runs the frame rafRef.current names
FrameNamed ==
  /\ rafLive
  /\ Apply(tickLoop([TL EXCEPT !.rafLive = FALSE], now))
  /\ pauseSnap' = Null
  /\ envSame

\* the environment runs a pending frame that lost its handle
FrameOrphan ==
  /\ orphans > 0
  /\ Apply(tickLoop([TL EXCEPT !.orphans = @ - 1], now))
  /\ pauseSnap' = Null
  /\ envSame

Play ==
  /\ Apply(play(TL, now, reducedMotion))
  /\ UNCHANGED pauseSnap
  /\ envSame

Pause ==
  /\ Apply(pause(TL, now))
  /\ pauseSnap' = IF Running(TL) THEN tickProgress(TL, now) ELSE pauseSnap
  /\ envSame

Toggle ==
  /\ Apply(toggle(TL, now, reducedMotion))
  /\ pauseSnap' = IF Running(TL) THEN tickProgress(TL, now) ELSE pauseSnap
  /\ envSame

Reset ==
  /\ Apply(reset(TL))
  /\ pauseSnap' = Null
  /\ envSame

Seek(X) ==
  \E x \in X :
    /\ Apply(seek(TL, x, now))
    /\ pauseSnap' = Null
    /\ envSame

SetSpeed(M) ==
  \E m \in M :
    /\ speedOps < MaxSpeedOps
    /\ speedOps' = speedOps + 1
    /\ Apply(setSpeed(TL, m, now))
    /\ pauseSnap' = Null
    /\ lastOp' = "setSpeed"
    /\ UNCHANGED <<now, speedProp, reducedMotion, exp, liveUrls, vp, pureVars>>

\* useEffect(() => { speedRef.current = speedProp }, [speedProp])
SpeedPropChange ==
  \E s \in SpeedProps \ {speedProp} :
    /\ speedOps < MaxSpeedOps
    /\ speedOps' = speedOps + 1
    /\ speedProp' = s
    /\ Apply([TL EXCEPT !.speedRef = s])
    /\ pauseSnap' = Null
    /\ lastOp' = "other"
    /\ UNCHANGED <<now, reducedMotion, exp, liveUrls, vp, pureVars>>

\* the same effect, the prop taking any configured value
SpeedConfigChange ==
  \E s \in SpeedConfigs \ {speedProp} :
    /\ speedOps < MaxSpeedOps
    /\ speedOps' = speedOps + 1
    /\ speedProp' = s
    /\ Apply([TL EXCEPT !.speedRef = s])
    /\ pauseSnap' = Null
    /\ lastOp' = "other"
    /\ UNCHANGED <<now, reducedMotion, exp, liveUrls, vp, pureVars>>

\* useEffect(() => { loopRef.current = loopProp }, [loopProp])
LoopPropChange ==
  /\ Apply([TL EXCEPT !.loopRef = ~loopRef])
  /\ UNCHANGED pauseSnap
  /\ envSame

ReducedMotionChange ==
  /\ reducedMotion' = ~reducedMotion
  /\ lastOp' = "other"
  /\ UNCHANGED <<now, tlVars, speedProp, speedOps, pauseSnap, exp, liveUrls, vp, pureVars>>

Register(Ids, Cfgs) ==
  \E id \in Ids, cfg \in Cfgs :
    /\ ~paths[id].reg
    /\ Apply(registerPath(TL, id, cfg))
    /\ pauseSnap' = Null
    /\ envSame

Unregister ==
  \E id \in PathIds :
    /\ paths[id].reg
    /\ Apply(unregisterPath(TL, id))
    /\ pauseSnap' = Null
    /\ envSame

PathPause ==
  \E id \in PathIds :
    /\ paths[id].reg
    /\ Apply(pathPause(TL, id))
    /\ UNCHANGED pauseSnap
    /\ envSame

\* from now on the visual update of a path, or its onDrawFrame, throws
PathFault ==
  \E id \in PathIds, f \in {"style", "onDrawFrame"} :
    /\ paths[id].reg
    /\ paths[id].fault = "none"
    /\ Apply([TL EXCEPT !.paths[id].fault = f])
    /\ UNCHANGED pauseSnap
    /\ envSame

PathPlay ==
  \E id \in PathIds :
    /\ paths[id].reg
    /\ Apply(pathPlay(TL, id, now, reducedMotion))
    /\ UNCHANGED pauseSnap
    /\ envSame

PathReset ==
  \E id \in PathIds :
    /\ paths[id].reg
    /\ Apply(pathReset(TL, id))
    /\ UNCHANGED pauseSnap
    /\ envSame

PathSeek(X) ==
  \E id \in PathIds, x \in X :
    /\ paths[id].reg
    /\ Apply(pathSeek(TL, id, x))
    /\ UNCHANGED pauseSnap
    /\ envSame

\* --------------------------------------------------------- export steps
expSame ==
  /\ pauseSnap' = Null
  /\ lastOp' = "other"
  /\ UNCHANGED <<now, speedProp, reducedMotion, speedOps, vp, pureVars>>

\* exportPng up to its first await: pause if playing, seek(1)
PngStart ==
  /\ exp.kind = "none"
  /\ LET was == Running(TL)
         t1 == IF was THEN pause(TL, now) ELSE TL
     IN /\ Apply(seek(t1, One, now))
        /\ exp' = [NoExport EXCEPT !.kind = "png", !.pc = "wait",
                     !.wasPlaying = was, !.currentProgress = progressRef,
                     !.result = "pending", !.stateBefore = stateRef]
  /\ UNCHANGED liveUrls
  /\ expSame

\* after the frame and the 50 ms timeout: the root and SVG lookups, the
\* clone and its serialisation, URL.createObjectURL
PngAfterWait ==
  /\ exp.kind = "png" /\ exp.pc = "wait"
  /\ \E outcome \in {"noRoot", "noSvg", "throws", "ok"} :
       IF outcome = "ok"
       THEN exp' = [exp EXCEPT !.pc = "image"] /\ liveUrls' = liveUrls + 1
       ELSE exp' = settle(exp, "rejected") /\ UNCHANGED liveUrls
  /\ UNCHANGED tlVars
  /\ expSame

\* img.onload
PngImageLoad ==
  /\ exp.kind = "png" /\ exp.pc = "image"
  /\ \E outcome \in {"noContext", "drawThrows", "ok"} :
       CASE outcome = "noContext" ->
              /\ exp' = settle(exp, "rejected")
              /\ liveUrls' = liveUrls - 1
              /\ UNCHANGED tlVars
         [] outcome = "drawThrows" ->
              /\ liveUrls' = liveUrls - 1
              /\ Apply(restore(TL, exp, now, reducedMotion))
              /\ exp' = settle(exp, "rejected")
         [] outcome = "ok" ->
              /\ exp' = [exp EXCEPT !.pc = "toBlob"]
              /\ UNCHANGED <<liveUrls, tlVars>>
  /\ expSame

\* img.onerror
PngImageError ==
  /\ exp.kind = "png" /\ exp.pc = "image"
  /\ liveUrls' = liveUrls - 1
  /\ Apply(restore(TL, exp, now, reducedMotion))
  /\ exp' = settle(exp, "rejected")
  /\ expSame

\* the canvas.toBlob callback
PngToBlob ==
  /\ exp.kind = "png" /\ exp.pc = "toBlob"
  /\ liveUrls' = liveUrls - 1
  /\ Apply(restore(TL, exp, now, reducedMotion))
  /\ \E blob \in BOOLEAN :
       exp' = settle(exp, IF blob THEN "resolved" ELSE "rejected")
  /\ expSame

\* exportGif up to the first await of its loop
GifStart ==
  /\ exp.kind = "none"
  /\ \E outcome \in {"noRoot", "noSvg", "throws", "noContext", "ok"},
        fc \in FrameCounts :
       LET was == Running(TL)
           e == [NoExport EXCEPT !.kind = "gif", !.wasPlaying = was,
                   !.currentProgress = progressRef, !.frameCount = fc,
                   !.result = "pending", !.stateBefore = stateRef]
           t1 == IF was THEN pause(TL, now) ELSE TL
       IN CASE outcome \in {"noRoot", "noSvg", "throws"} ->
                 exp' = settle(e, "rejected") /\ UNCHANGED tlVars
            [] outcome = "noContext" ->
                 exp' = settle(e, "rejected") /\ Apply(t1)
            [] outcome = "ok" ->
                 /\ exp' = [e EXCEPT !.pc = "wait"]
                 /\ Apply(seek(t1, frameProgress(0, fc), now))
  /\ UNCHANGED liveUrls
  /\ expSame

\* after the frame and the 16 ms timeout: clone, serialise, createObjectURL
GifAfterWait ==
  /\ exp.kind = "gif" /\ exp.pc = "wait"
  /\ \E outcome \in {"throws", "ok"} :
       IF outcome = "ok"
       THEN exp' = [exp EXCEPT !.pc = "image"] /\ liveUrls' = liveUrls + 1
       ELSE /\ exp' = settle([exp EXCEPT !.cause = "captureThrows"], "rejected")
            /\ UNCHANGED liveUrls
  /\ UNCHANGED tlVars
  /\ expSame

\* img.onload of frame i, and what follows resolveFrame()
GifImageLoad ==
  /\ exp.kind = "gif" /\ exp.pc = "image"
  /\ \/ \* drawImage or getImageData throws: the handler ends before
        \* revokeObjectURL and resolveFrame
        /\ exp' = [exp EXCEPT !.pc = "hung", !.cause = "drawThrows"]
        /\ UNCHANGED <<liveUrls, tlVars>>
     \/ \* the frame is kept and the loop goes on to the next one
        /\ exp.i < exp.frameCount
        /\ liveUrls' = liveUrls - 1
        /\ exp' = [exp EXCEPT !.pc = "wait", !.i = @ + 1,
                              !.captured = Append(@, exp.i)]
        /\ Apply(seek(TL, frameProgress(exp.i + 1, exp.frameCount), now))
     \/ \* the last frame: restore, encode, resolve
        /\ exp.i >= exp.frameCount
        /\ liveUrls' = liveUrls - 1
        /\ Apply(restore(TL, exp, now, reducedMotion))
        /\ exp' = settle([exp EXCEPT !.captured = Append(@, exp.i)],
                         "resolved")
  /\ expSame

\* img.onerror of frame i: rejectFrame, caught by the outer catch
GifImageError ==
  /\ exp.kind = "gif" /\ exp.pc = "image"
  /\ liveUrls' = liveUrls - 1
  /\ exp' = settle([exp EXCEPT !.cause = "imageError"], "rejected")
  /\ UNCHANGED tlVars
  /\ expSame

\* exportSvg: it neither reads nor moves the timeline
SvgExport ==
  /\ exp.kind = "none"
  /\ \E outcome \in SvgOutcomes : exp' = exportSvg(outcome)
  /\ UNCHANGED <<tlVars, liveUrls>>
  /\ expSame

\* ------------------------------------------------ the GIF encoder alone
\* canvas sizes, and the pixels getImageData can return (RGBA)
EncSizes == {<<1, 1>>, <<2, 1>>, <<1, 2>>}
EncPixels == {<<255, 0, 0, 255>>, <<0, 0, 255, 255>>, <<200, 10, 10, 128>>,
              <<0, 0, 0, 0>>}
EncQualities == {1, 10}

\* the ImageData of w x h pixels whose pixels are px
ImageData(w, h, px) == [width |-> w, height |-> h, data |-> Concat(px)]

\* every frame of that size
FramesOf(w, h) == {ImageData(w, h, px) : px \in [1 .. w * h -> EncPixels]}

\* frames.push(ctx.getImageData(0, 0, width, height))
EncCapture ==
  /\ enc.gif = <<>>
  /\ Len(enc.frames) < MaxFrames
  /\ \E f \in FramesOf(enc.width, enc.height) :
       enc' = [enc EXCEPT !.frames = Append(@, f)]
  /\ UNCHANGED <<appVars, lzw, noise, raf>>

\* const gif = encodeGIF(frames, delay, width, height, quality)
EncEncode ==
  /\ enc.gif = <<>>
  /\ enc.frames # <<>>
  /\ enc' = [enc EXCEPT !.gif = encodeGIF(enc.frames, enc.delay, enc.width,
                                          enc.height, enc.quality)]
  /\ UNCHANGED <<appVars, lzw, noise, raf>>

\* ------------------------------------------- exportGif's frame timing
\* options.fps and options.duration (milliseconds); 0 is an option not given
GifFps == {0, 10, 20}
GifDurations == {125, 250}

\* const fps = options?.fps || 24
gifFps(fps) == IF fps = 0 THEN 24 ELSE fps
\* const frameCount = Math.ceil((duration / 1000) * fps)
gifFrameCount(duration, fps) == (duration * fps + 999) \div 1000
\* const delay = Math.round(1000 / fps)
gifDelay(fps) == (2 * 1000 + fps) \div (2 * fps)
\* the same in hundredths of a second
gifDelayCs(fps) == (2 * 100 + fps) \div (2 * fps)

\* one pass of "for (let i = 0; i <= frameCount; i++)": a frame is pushed
GifCapture ==
  /\ enc.gif = <<>>
  /\ Len(enc.frames) <= gifFrameCount(enc.duration, gifFps(enc.fps))
  /\ \E px \in {<<255, 0, 0, 255>>, <<0, 0, 255, 255>>} :
       enc' = [enc EXCEPT !.frames = Append(@, ImageData(1, 1, <<px>>))]
  /\ UNCHANGED <<appVars, lzw, noise, raf>>

\* after the loop: encodeGIF(frames, delay, width, height, quality)
GifEncode ==
  /\ enc.gif = <<>>
  /\ Len(enc.frames) = gifFrameCount(enc.duration, gifFps(enc.fps)) + 1
  /\ enc' = [enc EXCEPT !.gif = encodeGIF(enc.frames, enc.delay, enc.width,
                                          enc.height, enc.quality)]
  /\ UNCHANGED <<appVars, lzw, noise, raf>>

\* ---------------------------------------------- buildColorTable alone
\* n opaque pixels in a row, all of different colours, the first one being
\* colour number off of the series
Ramp(n, off) ==
  [width |-> n, height |-> 1,
   data |-> [k \in 1 .. 4 * n |->
     LET c == ((off + (k - 1) \div 4) * 4099) % 16777216
     IN CASE k % 4 = 1 -> (c \div 65536) % 256
          [] k % 4 = 2 -> (c \div 256) % 256
          [] k % 4 = 3 -> c % 256
          [] k % 4 = 0 -> 255]]

\* frames with 256 colours, with more, and with pixels of alpha 128, 129
PaletteFrames ==
  {Ramp(256, 1), Ramp(257, 1), Ramp(257, 200),
   ImageData(2, 1, <<<<9, 9, 9, 128>>, <<7, 7, 7, 129>>>>),
   ImageData(2, 1, <<<<255, 255, 255, 255>>, <<0, 0, 0, 0>>>>)}

\* frames.push(ctx.getImageData(0, 0, width, height))
PalCapture ==
  /\ enc.table = <<>>
  /\ Len(enc.frames) < MaxFrames
  /\ \E f \in PaletteFrames : enc' = [enc EXCEPT !.frames = Append(@, f)]
  /\ UNCHANGED <<appVars, lzw, noise, raf>>

\* const colorTable = buildColorTable(frames, quality)
PalBuild ==
  /\ enc.table = <<>>
  /\ enc.frames # <<>>
  /\ enc' = [enc EXCEPT !.table = buildColorTable(enc.frames, enc.quality)]
  /\ UNCHANGED <<appVars, lzw, noise, raf>>

\* ------------------------------------------------- lzwEncode alone
\* the minimum code sizes tried; the indices are below 2^minCodeSize
LzwCodeSizes == {2}

\* one more index of the data to compress
LzwPush ==
  /\ lzw.bytes = <<>>
  /\ Len(lzw.data) < MaxData
  /\ \E index \in 0 .. Pow2(lzw.minCodeSize) - 1 :
       lzw' = [lzw EXCEPT !.data = Append(@, index)]
  /\ UNCHANGED <<appVars, enc, noise, raf>>

\* const compressed = lzwEncode(indexed, minCodeSize)
LzwEncode ==
  /\ lzw.bytes = <<>>
  /\ lzw' = [lzw EXCEPT !.bytes = lzwEncode(lzw.data, lzw.minCodeSize)]
  /\ UNCHANGED <<appVars, enc, noise, raf>>

\* What a GIF decoder reads from LZW image data: the minimum code size,
\* the sub-blocks up to the terminator, then codes taken from the bits
\* (lowest bit first) with a width that starts at minCodeSize + 1 and grows
\* by one, up to 12, when the dictionary has filled the code space.  The
\* result is <<TRUE, indices>>, or <<FALSE, indices so far>> when a code
\* names no entry or the bits end before the end code.
gifLzwDecode(bytes) ==
  LET minCodeSize == bytes[1]
      clearCode == Pow2(minCodeSize)
      endCode == clearCode + 1
      RECURSIVE blocks(_)
      blocks(pos) ==
        IF pos > Len(bytes) \/ bytes[pos] = 0 THEN <<>>
        ELSE SubSeq(bytes, pos + 1, pos + bytes[pos])
               \o blocks(pos + bytes[pos] + 1)
      stream == blocks(2)
      bit(p) == (stream[(p \div 8) + 1] \div Pow2(p % 8)) % 2
      RECURSIVE read(_, _)
      read(p, width) == IF width = 0 THEN 0 ELSE bit(p) + 2 * read(p + 1, width - 1)
      RECURSIVE decode(_, _, _, _, _)
      decode(p, width, entries, prev, out) ==
        IF p + width > 8 * Len(stream) THEN <<FALSE, out>>
        ELSE LET code == read(p, width)
                 next == endCode + 1 + Len(entries)
                 entry == IF code < clearCode THEN <<code>>
                          ELSE IF code < next THEN entries[code - endCode]
                          ELSE prev \o <<prev[1]>>
                 added == IF next < 4096 THEN Append(entries, prev \o <<entry[1]>>)
                          ELSE entries
                 wider == /\ endCode + 1 + Len(added) = Pow2(width)
                          /\ width < 12
             IN CASE code = clearCode ->
                       decode(p + width, minCodeSize + 1, <<>>, <<>>, out)
                  [] code = endCode -> <<TRUE, out>>
                  [] prev = <<>> /\ code < clearCode ->
                       decode(p + width, width, entries, <<code>>, out \o <<code>>)
                  [] prev # <<>> /\ code # clearCode /\ code # endCode
                       /\ code <= next ->
                       decode(p + width, IF wider THEN width + 1 ELSE width,
                              added, entry, out \o entry)
                  [] OTHER -> <<FALSE, out>>
  IN decode(0, minCodeSize + 1, <<>>, <<>>, <<>>)

ExportIdle == exp.kind = "none"
ExportPending == exp.pc \notin {"done", "hung"}

\* --------------------------------------------------- createNoise alone
NoiseSeeds == {0, 1, 42, -7, 2147483647, -2147483647 - 1}
NoiseInputs == {<<0, 1>>, <<1, 1>>, <<25, 2>>, <<-3, 1>>, <<99, 1>>, NaN}

\* const noise = createNoise(seed): a new generator replaces the old one
NoiseCreate ==
  /\ noise.calls # <<>>
  /\ \E seed \in NoiseSeeds : noise' = createNoise(seed)
  /\ UNCHANGED <<appVars, enc, lzw, raf>>

\* noise(x)
NoiseCall ==
  /\ Len(noise.calls) < MaxCalls
  /\ \E x \in NoiseInputs :
       LET r == noiseFn(noise.state, x)
       IN  noise' = [noise EXCEPT !.state = r.state,
                                  !.calls = Append(@, [x |-> x, value |-> r.value])]
  /\ UNCHANGED <<appVars, enc, lzw, raf>>

\* ------------------------------------------ useViewportAutoPlay steps
OnEnters == {"resume", "restart"}
OnLeaves == {"pause", "reset", "continue"}
Delays == {0, 100}

\* the effect has run for the controller of the current animationState
Rendered == vp.controller = animationState

vpSame ==
  /\ lastOp' = "other"
  /\ UNCHANGED <<now, speedProp, reducedMotion, speedOps, pauseSnap, exp,
                 liveUrls, pureVars>>

\* setAnimationState re-renders SignatureRoot; getController() returns a
\* new controller, so the effect cleans up (disconnect, clearTimeout) and
\* observes again with a new observer
ViewportRender ==
  /\ vp.enabled
  /\ ~Rendered
  /\ vp' = [vp EXCEPT !.controller = animationState, !.timeoutRef = FALSE,
                      !.initial = TRUE,
                      !.completed = @ \/ animationState = "completed"]
  /\ UNCHANGED tlVars
  /\ vpSame

\* the entries an observer can report for an element in or out of view
Entries(inView) ==
  IF inView THEN {<<TRUE, TRUE>>} ELSE {<<TRUE, FALSE>>, <<FALSE, FALSE>>}

ViewportEntry(v, entry) ==
  LET r == observerEntry(v, TL, entry[1], entry[2], now, reducedMotion)
  IN  vp' = r.vp /\ Apply(r.tl)

\* the first callback of a new observer
ViewportInitial ==
  /\ vp.enabled
  /\ Rendered
  /\ vp.initial
  /\ \E entry \in Entries(vp.inView) :
       ViewportEntry([vp EXCEPT !.initial = FALSE], entry)
  /\ vpSame

\* the element enters or leaves the viewport
ViewportCross ==
  /\ vp.enabled
  /\ Rendered
  /\ ~vp.initial
  /\ \E entry \in Entries(~vp.inView) :
       ViewportEntry([vp EXCEPT !.inView = ~@], entry)
  /\ vpSame

\* the timer set with delay > 0 fires
ViewportTimeout ==
  /\ vp.enabled
  /\ Rendered
  /\ vp.timeoutRef
  /\ LET r == viewportPlay([vp EXCEPT !.timeoutRef = FALSE, !.called = {},
                                      !.after = vp.completed],
                           TL, now, reducedMotion)
     IN  vp' = r.vp /\ Apply(r.tl)
  /\ vpSame

\* ------------------------------------------------------- specifications
\* The timeline alone: timing, speed, total duration.
NextTimeline ==
  \/ Advance
  \/ FrameNamed
  \/ Play
  \/ Pause
  \/ Toggle
  \/ Reset
  \/ Seek(SeekSome)
  \/ SetSpeed(SpeedSome)
  \/ SpeedPropChange
  \/ LoopPropChange

SpecTimeline == Init /\ [][NextTimeline]_vars

\* Ticks under changes of the speed prop and of the registry only.
NextProps ==
  \/ Advance
  \/ FrameNamed
  \/ Play
  \/ Pause
  \/ SpeedPropChange
  \/ Register({"a"}, {<<1, 2>>})
  \/ Unregister

SpecProps == InitWith(SpeedProps, BOOLEAN, {FALSE}) /\ [][NextProps]_vars

\* The registry and the per-path controllers under a playing timeline.
NextPaths ==
  \/ Advance
  \/ FrameNamed
  \/ Play
  \/ Pause
  \/ Reset
  \/ Seek({<<3, 2>>})
  \/ LoopPropChange
  \/ Register({"a"}, PathConfigs)
  \/ Unregister
  \/ PathPause
  \/ PathPlay
  \/ PathReset
  \/ PathSeek({<<3, 2>>})

SpecPaths == InitWith({One}, BOOLEAN, BOOLEAN) /\ [][NextPaths]_vars

\* Uninterrupted playback of one path: no seek, no reset.
NextDrawing ==
  \/ Advance
  \/ FrameNamed
  \/ Play
  \/ Pause
  \/ LoopPropChange
  \/ Register({"a"}, DrawConfigs)
  \/ Unregister
  \/ PathPause
  \/ PathPlay

SpecDrawing == InitWith({One}, BOOLEAN, {FALSE}) /\ [][NextDrawing]_vars

\* The state machine: every transition of the timeline, the loop and
\* reduced-motion settings changing under it, frames with and without a
\* handle.
NextLifecycle ==
  \/ Advance
  \/ FrameNamed
  \/ FrameOrphan
  \/ Play
  \/ Pause
  \/ Reset
  \/ Seek({<<1, 2>>})
  \/ LoopPropChange
  \/ ReducedMotionChange
  \/ Register({"a"}, {<<0, 1>>})
  \/ PathPause

SpecLifecycle == InitWith({One}, BOOLEAN, BOOLEAN) /\ [][NextLifecycle]_vars

\* Two paths whose updates may throw, under plain playback.
NextFaults ==
  \/ Advance
  \/ FrameNamed
  \/ Play
  \/ Pause
  \/ LoopPropChange
  \/ Register(PathIds, {<<0, 1>>, <<1, 2>>})
  \/ PathPause
  \/ PathFault

SpecFaults == InitWith({One}, {FALSE}, {FALSE}) /\ [][NextFaults]_vars

\* Speed supplied through the prop (at mount and later) and setSpeed.
NextSpeed ==
  \/ Advance
  \/ FrameNamed
  \/ Play
  \/ Pause
  \/ Seek({<<1, 2>>})
  \/ SetSpeed(SpeedInputs)
  \/ SpeedConfigChange

SpecSpeed == InitWith(SpeedConfigs, {FALSE}, {FALSE}) /\ [][NextSpeed]_vars

\* One export call on a timeline that nothing else touches meanwhile.
NextExport ==
  \/ (ExportPending /\ Advance)
  \/ (ExportIdle /\ FrameNamed)
  \/ (ExportIdle /\ Play)
  \/ (ExportIdle /\ Pause)
  \/ (ExportIdle /\ Seek({<<1, 4>>}))
  \/ PngStart
  \/ PngAfterWait
  \/ PngImageLoad
  \/ PngImageError
  \/ PngToBlob
  \/ GifStart
  \/ GifAfterWait
  \/ GifImageLoad
  \/ GifImageError
  \/ SvgExport

SpecExport == InitWith({One}, {FALSE}, {FALSE}) /\ [][NextExport]_vars

\* encodeGIF on the frames of one export: fps 24, so delay 42
InitEncoder(Sizes, Qualities) ==
  /\ InitApp({One}, {FALSE}, {FALSE})
  /\ \E size \in Sizes, q \in Qualities :
       enc = [NoEnc EXCEPT !.width = size[1], !.height = size[2],
                           !.delay = 42, !.quality = q]
  /\ lzw = NoLzw
  /\ noise = NoNoise
  /\ vp = NoViewport
  /\ raf = NoRaf

NextEncoder ==
  \/ EncCapture
  \/ EncEncode

SpecEncoder == InitEncoder(EncSizes, EncQualities) /\ [][NextEncoder]_vars

\* The same on a canvas of two pixels with every pixel sampled.
SpecIndexed == InitEncoder({<<2, 1>>}, {10}) /\ [][NextEncoder]_vars

\* lzwEncode on every short sequence of indices
NextPalette ==
  \/ PalCapture
  \/ PalBuild

SpecPalette == InitEncoder({<<0, 0>>}, EncQualities) /\ [][NextPalette]_vars

\* exportGif's timing on a canvas of one pixel
InitGifOptions ==
  /\ InitApp({One}, {FALSE}, {FALSE})
  /\ \E fps \in GifFps, duration \in GifDurations :
       enc = [NoEnc EXCEPT !.width = 1, !.height = 1, !.quality = 10,
                           !.fps = fps, !.duration = duration,
                           !.delay = gifDelay(gifFps(fps))]
  /\ lzw = NoLzw
  /\ noise = NoNoise
  /\ vp = NoViewport
  /\ raf = NoRaf

NextGifTiming ==
  \/ GifCapture
  \/ GifEncode

SpecGifTiming == InitGifOptions /\ [][NextGifTiming]_vars

InitLzw ==
  /\ InitApp({One}, {FALSE}, {FALSE})
  /\ enc = NoEnc
  /\ \E m \in LzwCodeSizes : lzw = [NoLzw EXCEPT !.minCodeSize = m]
  /\ noise = NoNoise
  /\ vp = NoViewport
  /\ raf = NoRaf

NextLzw ==
  \/ LzwPush
  \/ LzwEncode

SpecLzw == InitLzw /\ [][NextLzw]_vars

InitNoise ==
  /\ InitApp({One}, {FALSE}, {FALSE})
  /\ enc = NoEnc
  /\ lzw = NoLzw
  /\ \E seed \in NoiseSeeds : noise = createNoise(seed)
  /\ vp = NoViewport
  /\ raf = NoRaf

NextNoise ==
  \/ NoiseCreate
  \/ NoiseCall

SpecNoise == InitNoise /\ [][NextNoise]_vars

\* A drawing with viewport autoplay and nothing else driving it.
InitViewport ==
  /\ InitApp({One}, {FALSE}, {FALSE})
  /\ enc = NoEnc
  /\ lzw = NoLzw
  /\ noise = NoNoise
  /\ raf = NoRaf
  /\ \E onEnter \in OnEnters, onLeave \in OnLeaves, once \in BOOLEAN,
        delay \in Delays, inView \in BOOLEAN :
       vp = [NoViewport EXCEPT !.enabled = TRUE, !.onEnter = onEnter,
                               !.onLeave = onLeave, !.once = once,
                               !.delay = delay, !.inView = inView,
                               !.initial = TRUE]

NextViewport ==
  \/ (Rendered /\ Advance)
  \/ (Rendered /\ FrameNamed)
  \/ ViewportRender
  \/ ViewportInitial
  \/ ViewportCross
  \/ ViewportTimeout

SpecViewport == InitViewport /\ [][NextViewport]_vars

\* One exportGif call on a timeline that nothing else touches meanwhile.
NextGif ==
  \/ (ExportPending /\ Advance)
  \/ (ExportIdle /\ FrameNamed)
  \/ (ExportIdle /\ Play)
  \/ (ExportIdle /\ Pause)
  \/ (ExportIdle /\ Seek({<<1, 4>>}))
  \/ GifStart
  \/ GifAfterWait
  \/ GifImageLoad
  \/ GifImageError

\* exportGif on a timeline with a path, which may be paused on its own;
\* a frame requested before the export may run during it
NextCapture ==
  \/ Advance
  \/ FrameNamed
  \/ (ExportIdle /\ Play)
  \/ (ExportIdle /\ Pause)
  \/ (ExportIdle /\ Register({"a"}, {<<1, 2>>}))
  \/ (ExportIdle /\ PathPause)
  \/ GifStart
  \/ GifAfterWait
  \/ GifImageLoad
  \/ GifImageError

SpecCapture == InitWith({One}, {FALSE}, {FALSE}) /\ [][NextCapture]_vars

\* the continuations of the exportGif call in flight: at each await only
\* the continuations of that await are enabled
GifStep ==
  \/ GifAfterWait
  \/ GifImageLoad
  \/ GifImageError

\* exportGif where every scheduled frame and timeout fires and every image
\* load ends in its load or its error event.
SpecExportLive ==
  /\ InitWith({One}, {FALSE}, {FALSE})
  /\ [][NextGif]_vars
  /\ WF_vars(GifStep)

\* ------------------------------------------------------------- properties
Settled == exp.pc = "done"

\* C1: once exportPng has settled, resolved or rejected, a timeline that was
\* playing at progress p when it was called is playing again at progress p.
C1_PngRestoresPlayback ==
  (exp.kind = "png" /\ Settled /\ exp.wasPlaying)
    => (Running(TL) /\ progressRef = exp.currentProgress)

\* C2: once exportGif has settled, resolved or rejected, the timeline is
\* playing exactly if it was playing at the call, and global progress is
\* the progress at the call.
C2_GifRestoresPlayback ==
  (exp.kind = "gif" /\ Settled)
    => ((Running(TL) <=> exp.wasPlaying) /\ progressRef = exp.currentProgress)

\* C3: once an export has settled or has been abandoned by an exception in
\* an image handler, no object URL it created is left unrevoked.
C3_UrlsRevoked == exp.pc \in {"done", "hung"} => liveUrls = 0

\* C4: in a play-through started by play() from idle or completed (or in a
\* pass the loop restarted), every path taking part has had onDrawStart and
\* onDrawComplete called at most once, and exactly once each when the
\* timeline is completed, unless its own controller reset it meanwhile.
C4_CallbacksOnce ==
  run => \A id \in PathIds :
           (paths[id].reg /\ paths[id].inRun) =>
             /\ paths[id].nStart <= 1
             /\ paths[id].nComplete <= 1
             /\ stateRef = "completed" =>
                  (paths[id].nStart = 1 /\ paths[id].nComplete = 1)

\* a path that completed before the timeline did, at the natural end of a
\* play-through that took at least three ticks
C4_Witness ==
  /\ stateRef = "completed" /\ run /\ now >= 2
  /\ \E id \in PathIds :
       /\ paths[id].reg /\ paths[id].inRun
       /\ paths[id].delay + paths[id].duration < durationTotalRef
       /\ paths[id].nStart = 1 /\ paths[id].nComplete = 1

\* the elapsed animation time a tick at timestamp n works from
tickElapsed(t, n) ==
  IF t.startTimeRef = Null THEN Zero
  ELSE RMul(RSub(Rat(n), t.startTimeRef), t.speedRef)

\* C5: while playing or looping with a start time set, setSpeed(m) leaves
\* the progress (and the elapsed animation time) a tick computes at the
\* same timestamp unchanged, for every m.
C5_SpeedContinuity ==
  (Running(TL) /\ startTimeRef # Null) =>
    \A m \in SpeedInputs :
      /\ tickProgress(setSpeed(TL, m, now), now) = tickProgress(TL, now)
      /\ tickElapsed(setSpeed(TL, m, now), now) = tickElapsed(TL, now)
      /\ setSpeed(TL, m, now).speedRef = clampSpeed(m)

\* setSpeed has just changed the speed of a timeline part-way through
C5_Witness ==
  /\ lastOp = "setSpeed" /\ Running(TL) /\ startTimeRef # Null
  /\ speedRef # speedProp
  /\ RLt(Zero, tickProgress(TL, now)) /\ RLt(tickProgress(TL, now), One)
  /\ RLt(Zero, progressRef)

\* C6: paused at progress p, setSpeed(m) then play() then a tick with no
\* time elapsed computes p (as play() and a tick alone would).
C6_PausedSpeedNoJump ==
  (/\ stateRef = "paused" /\ ~reducedMotion
   /\ tickProgress(play(TL, now, reducedMotion), now) = progressRef)
    => \A m \in SpeedInputs :
         tickProgress(play(setSpeed(TL, m, now), now, reducedMotion), now)
           = progressRef

\* C7: after pause() and any wait, with no seek, speed or duration change
\* in between, the first tick after play() computes the progress a tick
\* would have computed when pause() ran.
C7_ResumeNoJump ==
  (Running(TL) /\ pauseSnap # Null) => tickProgress(TL, now) = pauseSnap

\* play() has just resumed a timeline paused part-way, after a wait
C7_Witness ==
  /\ stateRef = "playing" /\ pauseSnap # Null
  /\ pausedAtRef # Null /\ RLt(pausedAtRef, Rat(now))
  /\ RLt(Zero, pauseSnap) /\ RLt(pauseSnap, One)

\* C8: global progress and every registered path's progress lie in [0, 1].
C8_ProgressClamped ==
  /\ In01(progressRef)
  /\ \A id \in PathIds : paths[id].reg => In01(paths[id].progress)

\* C9: seek(x) on a completed timeline leaves it paused at clamp(x), and a
\* following play() resumes: the timeline plays and its first tick
\* computes clamp(x).
C9_SeekDemotesCompleted ==
  stateRef = "completed" =>
    \A x \in SeekInputs :
      LET t1 == seek(TL, x, now)
          t2 == play(t1, now, reducedMotion)
      IN /\ t1.stateRef = "paused"
         /\ t1.progressRef = Clamp01(x)
         /\ ~reducedMotion =>
              (t2.stateRef = "playing" /\ tickProgress(t2, now) = Clamp01(x))

\* seek has acted on a completed timeline: only seek changes stateRef
\* without changing animationState
C9_Witness ==
  /\ stateRef = "paused" /\ animationState = "completed"
  /\ RLt(Zero, progressRef) /\ RLt(progressRef, One)
  /\ tickProgress(play(TL, now, FALSE), now) = progressRef

\* C10: a tick that does not restart the loop never lowers global progress,
\* whatever happened since the tick before (pause, resume, a change of the
\* speed prop, a path registering or unregistering).
C10_TickMonotone ==
  [][(FrameNamed /\ ~(loopRef /\ RGe(tickProgress(TL, now), One)))
       => RGe(progressRef', progressRef)]_vars

\* C11: between two ticks of one uninterrupted playback (the later one not
\* restarting the loop), whatever its easing and length, no registered
\* path's drawn length decreases.
C11_MonotonicDrawing ==
  [][(/\ FrameNamed
      /\ Running(TL) /\ RGt(progressRef, Zero)
      /\ ~(loopRef /\ RGe(tickProgress(TL, now), One)))
       => \A id \in PathIds, e \in Easings, len \in PathLengths :
            paths[id].reg =>
              RGe(drawnLength(paths'[id], e, len),
                  drawnLength(paths[id], e, len))]_vars

\* the timestamps a frame delivered from now on can carry
Later == now .. MaxNow

\* C12: with loop enabled, the tick that computes progress 1 leaves the
\* timeline looping at progress 0 measured from that tick, every path's
\* flags false, onComplete called once and another frame scheduled.
C12_LoopReset ==
  (Running(TL) /\ loopRef /\ RGe(tickProgress(TL, now), One)) =>
    LET t == tickLoop([TL EXCEPT !.rafLive = FALSE], now)
    IN /\ t.stateRef = "looping"
       /\ t.progressRef = Zero
       /\ t.startTimeRef = Rat(now) /\ tickProgress(t, now) = Zero
       /\ \A id \in PathIds :
            t.paths[id].reg =>
              (~t.paths[id].hasStarted /\ ~t.paths[id].hasCompleted)
       /\ t.fired.onComplete = 1
       /\ t.rafLive

\* the loop has just restarted under a path that the pass had completed
C12_Witness ==
  /\ stateRef = "looping" /\ loopRef /\ progressRef = Zero
  /\ fired.onComplete = 1 /\ rafLive
  /\ \E id \in PathIds :
       /\ paths[id].reg /\ paths[id].progress = One
       /\ ~paths[id].hasStarted /\ ~paths[id].hasCompleted

\* C13: with loop disabled, the tick that computes progress 1 leaves the
\* timeline completed at progress 1, every registered path at progress 1,
\* onComplete called once and no frame scheduled; a tick delivered after
\* it changes nothing and calls nothing.
C13_NaturalCompletion ==
  (Running(TL) /\ ~loopRef /\ RGe(tickProgress(TL, now), One)) =>
    LET t == tickLoop([TL EXCEPT !.rafLive = FALSE], now)
        after == [t EXCEPT !.fired = NoCalls]
    IN /\ t.stateRef = "completed"
       /\ t.progressRef = One
       /\ \A id \in PathIds : t.paths[id].reg => t.paths[id].progress = One
       /\ t.fired.onComplete = 1
       /\ ~t.rafLive
       /\ \A n \in Later : tickLoop(after, n) = after

\* a play-through has just completed with a path that was individually
\* paused
C13_Witness ==
  /\ stateRef = "completed" /\ run /\ ~loopRef
  /\ fired.onComplete = 1 /\ ~rafLive /\ progressRef = One
  /\ \E id \in PathIds :
       paths[id].reg /\ paths[id].isPaused /\ paths[id].progress = One

\* C14: reset() from any state leaves the timeline idle at progress 0 with
\* no frame named by rafRef, no start or pause timestamp, and every
\* registered path at progress 0 with both flags false.
C14_ResetToIdle ==
  LET t == reset(TL)
  IN /\ t.stateRef = "idle"
     /\ ~t.rafLive
     /\ t.progressRef = Zero
     /\ t.startTimeRef = Null /\ t.pausedAtRef = Null
     /\ \A id \in PathIds :
          t.paths[id].reg =>
            /\ t.paths[id].progress = Zero
            /\ ~t.paths[id].hasStarted /\ ~t.paths[id].hasCompleted

\* reset() has zeroed a path that had started drawing
C14_Witness ==
  /\ stateRef = "idle" /\ ~rafLive /\ progressRef = Zero
  /\ startTimeRef = Null /\ pausedAtRef = Null
  /\ \E id \in PathIds :
       /\ paths[id].reg /\ paths[id].nStart = 1
       /\ paths[id].progress = Zero /\ ~paths[id].hasStarted

\* C15: pause() acts only on a playing or looping timeline, which it
\* leaves paused with no frame named by rafRef; reset() leaves no such
\* frame either; and while the timeline is paused or idle a tick delivered
\* at any later timestamp changes neither global progress nor any path.
C15_CancelFreezes ==
  LET frozen(t) ==
        \A n \in Later :
          /\ tickLoop(t, n).progressRef = t.progressRef
          /\ tickLoop(t, n).paths = t.paths
      p == pause(TL, now)
      r == reset(TL)
  IN /\ IF Running(TL)
        THEN p.stateRef = "paused" /\ ~p.rafLive /\ frozen(p)
        ELSE p = TL
     /\ ~r.rafLive /\ frozen(r)
     /\ stateRef \in {"paused", "idle"} => frozen(TL)

\* pause() has just stopped a timeline part-way while a frame without a
\* handle is still to be delivered
C15_Witness ==
  /\ stateRef = "paused" /\ fired.onPause = 1
  /\ ~rafLive /\ orphans > 0
  /\ RLt(Zero, progressRef) /\ RLt(progressRef, One)

\* C16: without reduced motion, play() on an idle or completed timeline
\* leaves it playing at progress 0 with every path's flags false and a
\* frame scheduled, and the first tick, whatever its timestamp, takes that
\* timestamp as the start and computes progress 0.
C16_FreshStart ==
  (stateRef \in {"idle", "completed"} /\ ~reducedMotion) =>
    LET t == play(TL, now, reducedMotion)
    IN /\ t.stateRef = "playing"
       /\ t.progressRef = Zero
       /\ \A id \in PathIds :
            t.paths[id].reg =>
              (~t.paths[id].hasStarted /\ ~t.paths[id].hasCompleted)
       /\ t.rafLive
       /\ \A n \in Later :
            /\ tickProgress(t, n) = Zero
            /\ tickLoop(t, n).startTimeRef = Rat(n)
            /\ tickLoop(t, n).progressRef = Zero

\* play() has just restarted a timeline whose path still shows the end of
\* the previous run
C16_Witness ==
  /\ stateRef = "playing" /\ fired.onPlay = 1 /\ ~reducedMotion
  /\ startTimeRef = Null /\ progressRef = Zero /\ now > 0
  /\ \E id \in PathIds :
       /\ paths[id].reg /\ paths[id].progress = One
       /\ ~paths[id].hasStarted /\ ~paths[id].hasCompleted

\* C17: under reduced motion play() from any state leaves the timeline
\* completed at global progress 1 without calling onPlay; global progress
\* 1 has been applied to the paths, so every path not individually paused
\* is at progress 1.
C17_ReducedMotion ==
  reducedMotion =>
    LET t == play(TL, now, reducedMotion)
    IN /\ t.progressRef = One
       /\ t.stateRef = "completed" /\ t.animationState = "completed"
       /\ t.fired.onPlay = 0
       /\ t.paths = applyProgressToPaths(TL, One).paths
       /\ \A id \in PathIds :
            (t.paths[id].reg /\ ~t.paths[id].isPaused) =>
              t.paths[id].progress = One

\* play() took the shortcut on a timeline that was playing: its frame is
\* still pending
C17_Witness ==
  /\ reducedMotion /\ stateRef = "completed" /\ ~run
  /\ fired.onPlay = 0 /\ rafLive /\ progressRef = One
  /\ startTimeRef # Null
  /\ \E id \in PathIds : paths[id].reg /\ paths[id].progress = One

\* C18: the speed multiplier tick and seek use lies in [0.1, 10].
C18_SpeedInRange == RLe(MinSpeed, speedRef) /\ RLe(speedRef, MaxSpeed)

C20_SvgNeverRejects ==
  exp.kind = "svg" =>
    /\ Settled /\ exp.result = "resolved"
    /\ exp.cause \in {"noRoot", "noSvg", "throws"} => exp.value = ""
    /\ exp.cause = "ok" => exp.value = "markup"

\* exportSvg has resolved after a step of it threw
C20_Witness ==
  /\ exp.kind = "svg" /\ exp.cause = "throws"
  /\ exp.result = "resolved" /\ exp.value = ""

\* the ways the capture of one exportGif frame fails: an exception while
\* cloning or serialising, the image failing to load, an exception while
\* drawing it or reading its pixels
CaptureFailures == {"captureThrows", "imageError", "drawThrows"}

\* C21: once the capture of a frame has failed, exportGif has rejected.
C21_FrameFailureRejects ==
  (exp.kind = "gif" /\ exp.cause \in CaptureFailures) =>
    (Settled /\ exp.result = "rejected")

\* C22: every call of exportPng or exportGif eventually settles.
C22_ExportSettles == (exp.kind \in {"png", "gif"}) ~> Settled

\* C23: the bytes encodeGIF returns are the GIF89a signature, the logical
\* screen descriptor (little-endian width and height, global colour table
\* of 256 entries), 768 bytes of colour table, the NETSCAPE2.0 looping
\* extension, one block per frame (graphics control extension, image
\* descriptor, LZW data) and the trailer 0x3b as the last byte.
\* SkipSubBlocks is the position after the data sub-blocks that start at
\* pos and SkipFrames the position after n frame blocks, 0 when the bytes
\* read are not such blocks.
C23_GifLayout ==
  enc.gif # <<>> =>
    LET b == enc.gif
        RECURSIVE SkipSubBlocks(_)
        SkipSubBlocks(pos) ==
          IF pos > Len(b) THEN 0
          ELSE IF b[pos] = 0 THEN pos + 1
          ELSE SkipSubBlocks(pos + b[pos] + 1)
        RECURSIVE SkipFrames(_, _)
        SkipFrames(pos, n) ==
          IF n = 0 THEN pos
          ELSE IF pos = 0 \/ pos + 18 > Len(b) THEN 0
          ELSE IF /\ b[pos] = 33 /\ b[pos + 1] = 249 /\ b[pos + 2] = 4
                  /\ b[pos + 7] = 0
                  /\ b[pos + 8] = 44
                  /\ b[pos + 13] + 256 * b[pos + 14] = enc.width
                  /\ b[pos + 15] + 256 * b[pos + 16] = enc.height
               THEN SkipFrames(SkipSubBlocks(pos + 19), n - 1)
               ELSE 0
        end == SkipFrames(801, Len(enc.frames))
    IN /\ SubSeq(b, 1, 6) = <<71, 73, 70, 56, 57, 97>>
       /\ b[7] + 256 * b[8] = enc.width
       /\ b[9] + 256 * b[10] = enc.height
       /\ b[11] \div 128 = 1
       /\ b[11] % 8 = 7
       /\ SubSeq(b, 14, 781) = buildColorTable(enc.frames, enc.quality)
       /\ SubSeq(b, 782, 800) =
            <<33, 255, 11, 78, 69, 84, 83, 67, 65, 80, 69, 50, 46, 48,
              3, 1, 0, 0, 0>>
       /\ end = Len(b)
       /\ b[end] = 59

\* two frames of two pixels have been encoded
C23_Witness ==
  /\ enc.gif # <<>>
  /\ Len(enc.frames) = 2
  /\ enc.width = 2

\* C24: convertToIndexed gives every pixel with alpha >= 128 the lowest
\* index among the palette entries nearest to it in squared RGB distance,
\* and every pixel with alpha < 128 index 0; on a palette of pure red and
\* pure blue, (200,10,10) gets the red entry and (10,10,200) the blue one.
C24_NearestColor ==
  enc.gif # <<>> =>
    LET table == buildColorTable(enc.frames, enc.quality)
        red == findNearestColor(200, 10, 10, table)
        blue == findNearestColor(10, 10, 200, table)
        sampled == sampleFrames(enc.frames, Max2(1, 10 \div enc.quality), <<>>)
    IN /\ \A n \in DOMAIN enc.frames :
            LET f == enc.frames[n]
                indexed == convertToIndexed(f, table)
            IN \A k \in 1 .. f.width * f.height :
                 LET r == f.data[4 * k - 3]
                     g == f.data[4 * k - 2]
                     bl == f.data[4 * k - 1]
                     a == f.data[4 * k]
                     idx == indexed[k]
                     d == colorDist(r, g, bl, table, idx)
                 IN IF a < 128 THEN idx = 0
                    ELSE /\ idx \in 0 .. 255
                         /\ \A j \in 0 .. 255 :
                              LET dj == colorDist(r, g, bl, table, j)
                              IN d <= dj /\ (dj = d => idx <= j)
       /\ {sampled[k] : k \in DOMAIN sampled} = {255 * 65536, 255} =>
            /\ SubSeq(table, 3 * red + 1, 3 * red + 3) = <<255, 0, 0>>
            /\ SubSeq(table, 3 * blue + 1, 3 * blue + 3) = <<0, 0, 255>>

\* a palette of pure red and pure blue, and a frame with one pixel of
\* alpha 128 and one transparent pixel
C24_Witness ==
  /\ enc.gif # <<>>
  /\ LET sampled == sampleFrames(enc.frames, 1, <<>>)
     IN {sampled[k] : k \in DOMAIN sampled} = {255 * 65536, 255}
  /\ enc.quality = 10
  /\ \E n \in DOMAIN enc.frames :
       enc.frames[n].data = <<200, 10, 10, 128, 0, 0, 0, 0>>

\* C25: the bytes lzwEncode returns, read as a GIF decoder reads them,
\* decode to the data that was encoded.
C25_LzwRoundTrip ==
  lzw.bytes # <<>> => gifLzwDecode(lzw.bytes) = <<TRUE, lzw.data>>

\* C26: exportGif captures the frames 0 .. frameCount in that order, one
\* at a time, and while frame i is being captured the global progress is
\* i / frameCount and every path shows what seek(i / frameCount) gives it.
C26_FrameCaptures ==
  exp.kind = "gif" =>
    /\ exp.pc \in {"wait", "image"} =>
         /\ exp.captured = [k \in 1 .. exp.i |-> k - 1]
         /\ progressRef = Norm(exp.i, exp.frameCount)
         /\ \A id \in PathIds :
              paths[id].progress =
                applyProgressToPaths(TL, Norm(exp.i, exp.frameCount))
                  .paths[id].progress
    /\ exp.result = "resolved" =>
         exp.captured = [k \in 1 .. exp.frameCount + 1 |-> k - 1]

\* a three-frame export of a drawing with a path that follows the
\* timeline has resolved
C26_Witness ==
  /\ exp.kind = "gif"
  /\ exp.result = "resolved"
  /\ exp.frameCount = 2
  /\ paths["a"].reg
  /\ ~paths["a"].isPaused

\* C27: every value a generator made by createNoise has returned lies in
\* [-1, 1] (values are kept in thousandths).
C27_NoiseRange ==
  \A k \in 1 .. Len(noise.calls) :
    noise.calls[k].value \in -1000 .. 1000

\* a generator has been called MaxCalls times, the last time with an
\* input that is not an integer, and has returned something above -1
C27_Witness ==
  /\ Len(noise.calls) = MaxCalls
  /\ noise.calls[MaxCalls].x[2] = 2
  /\ \E k \in 1 .. MaxCalls : noise.calls[k].value > 0

\* C28: the value a generator returns for x is the value a fresh
\* generator of the same seed returns for x, whatever was asked before,
\* and so is the same each time x is asked.
C28_NoiseReproducible ==
  /\ \A k \in 1 .. Len(noise.calls) :
       noise.calls[k].value =
         noiseFn(createNoise(noise.seed).state, noise.calls[k].x).value
  /\ \A j, k \in 1 .. Len(noise.calls) :
       noise.calls[j].x = noise.calls[k].x =>
         noise.calls[j].value = noise.calls[k].value

\* C29: with once = true, a callback or timer of the viewport autoplay that
\* runs after the animation has played to completion calls neither
\* reset() nor play().
C29_OnceNeverReplays ==
  vp.once /\ vp.after => vp.called \cap {"reset", "play"} = {}

\* C30: a tick or a timeline seek that applies the global progress g leaves
\* every registered record that is not individually paused at
\* clamp((g * totalDuration - delay) / duration, 0, 1), and leaves the
\* progress of every individually paused record as it was.
C30_AppliedProgress ==
  [][(FrameNamed \/ Seek(SeekInputs)) =>
       LET g == IF Seek(SeekInputs) THEN progressRef'
                ELSE tickProgress(TL, now)
       IN  \A id \in PathIds :
             paths[id].reg =>
               IF paths[id].isPaused
               THEN paths'[id].progress = paths[id].progress
               ELSE (Seek(SeekInputs) \/ Running(TL)) =>
                      paths'[id].progress =
                        localProgress(g, durationTotalRef, paths[id])]_vars

\* C31: when the visual update or the onDrawFrame callback of a path throws
\* during a tick, no exception leaves the tick, every registered path that
\* is not paused gets its progress of that tick, and the tick schedules the
\* next frame or completes the timeline.
C31_BadFrameContained ==
  (Running(TL) /\ \E id \in PathIds : paths[id].reg /\ paths[id].fault # "none") =>
    LET t == tickLoop([TL EXCEPT !.rafLive = FALSE], now)
        p == tickProgress(TL, now)
        done == RGe(p, One) /\ ~loopRef
    IN  /\ ~Threw(t)
        /\ \A id \in PathIds :
             (paths[id].reg /\ ~paths[id].isPaused) =>
               t.paths[id].progress =
                 IF done THEN One
                 ELSE localProgress(p, durationTotalRef, paths[id])
        /\ IF done THEN t.stateRef = "completed" ELSE t.rafLive

\* a tick has just moved path "b" part-way and scheduled the next frame
\* while the visual update of path "a" throws
C31_Witness ==
  /\ stateRef = "playing" /\ rafLive
  /\ paths["a"].reg /\ paths["a"].fault = "style" /\ ~paths["a"].isPaused
  /\ paths["b"].reg /\ paths["b"].fault = "none"
  /\ RGt(paths["b"].progress, Zero) /\ RLt(paths["b"].progress, One)
  /\ paths["b"].progress = localProgress(progressRef, durationTotalRef, paths["b"])

\* the colours buildColorTable samples: every samples-th pixel of each
\* frame, when its alpha is above 128
Sampled(frames, quality) ==
  LET samples == IF 10 \div quality < 1 THEN 1 ELSE 10 \div quality
  IN  UNION {
        {At(frames[f].data, 4 * j) * 65536 + At(frames[f].data, 4 * j + 1) * 256
           + At(frames[f].data, 4 * j + 2) :
           j \in {x \in 0 .. (Len(frames[f].data) \div 4) - 1 :
                    x % samples = 0 /\ At(frames[f].data, 4 * x + 3) > 128}} :
        f \in DOMAIN frames}

\* C32: buildColorTable returns 768 bytes; with at most 256 sampled
\* colours each of them is an entry and the other entries are zero, and
\* with more than 256 each of the 256 entries is a sampled colour.
C32_ColorTable ==
  enc.table # <<>> =>
    LET sampled == Sampled(enc.frames, enc.quality)
        entry(i) == enc.table[3 * i - 2] * 65536 + enc.table[3 * i - 1] * 256
                      + enc.table[3 * i]
        entries == {entry(i) : i \in 1 .. 256}
    IN  /\ Len(enc.table) = 768
        /\ \A k \in 1 .. 768 : enc.table[k] \in 0 .. 255
        /\ IF Cardinality(sampled) <= 256
           THEN /\ sampled \subseteq entries
                /\ entries \subseteq sampled \cup {0}
                /\ \A i \in Cardinality(sampled) + 1 .. 256 : entry(i) = 0
           ELSE entries \subseteq sampled

\* a table has been built from every pixel of two frames that have more
\* than 256 colours between them
C32_Witness ==
  /\ enc.table # <<>>
  /\ enc.quality = 10
  /\ Len(enc.frames) = 2
  /\ Cardinality(Sampled(enc.frames, 10)) > 256

\* C33: what packLZW returns is the minCodeSize byte, sub-blocks of 1..255
\* bytes each after its length byte, and one zero byte at the end; the
\* bytes of the sub-blocks, read lowest bit first with packLZW's own code
\* widths, give back the codes that were packed, in no more bytes than
\* their bits need.
C33_SubBlocks ==
  lzw.bytes # <<>> =>
    LET b == lzw.bytes
        min == lzw.minCodeSize
        codes == lzwCodes(lzw.data, min)
        RECURSIVE walk(_)
        walk(pos) ==
          IF pos > Len(b) THEN <<FALSE, <<>>>>
          ELSE IF b[pos] = 0 THEN <<pos = Len(b), <<>>>>
          ELSE LET rest == walk(pos + b[pos] + 1)
               IN  <<rest[1] /\ b[pos] \in 1 .. 255,
                     SubSeq(b, pos + 1, pos + b[pos]) \o rest[2]>>
        payload == walk(2)[2]
        bit(p) == IF p \div 8 < Len(payload)
                  THEN (payload[(p \div 8) + 1] \div Pow2(p % 8)) % 2
                  ELSE 0
        RECURSIVE read(_, _)
        read(p, width) ==
          IF width = 0 THEN 0 ELSE bit(p) + 2 * read(p + 1, width - 1)
        RECURSIVE unpack(_, _, _)
        unpack(p, width, n) ==
          IF n = 0 THEN <<p, <<>>>>
          ELSE LET code == read(p, width)
                   next == IF code = Pow2(min) THEN min + 1
                           ELSE IF code >= Pow2(width) - 1 /\ width < 12
                           THEN width + 1
                           ELSE width
                   rest == unpack(p + width, next, n - 1)
               IN  <<rest[1], <<code>> \o rest[2]>>
        got == unpack(0, min + 1, Len(codes))
    IN  /\ b[1] = min
        /\ walk(2)[1]
        /\ got[2] = codes
        /\ Len(payload) = (got[1] + 7) \div 8

\* ------------------------------------------------------------ RAF manager
\* globalRAF driven by its callers, the browser's frames and the clock.
NextRaf ==
  \/ Advance
  \/ RafSubscribe
  \/ RafUnsubscribe
  \/ RafDestroy
  \/ RafFrame

SpecRaf == InitWith({One}, {FALSE}, {FALSE}) /\ [][NextRaf]_vars

\* C34: when a frame has run, every callback that was subscribed when it began
\* and still is has been invoked exactly once in it, these in registration
\* order whether or not one of them threw, and the next frame is requested
\* while a callback is subscribed.
C34_EveryCallbackOnce ==
  raf.framed =>
    LET kept == Range(raf.atStart) \cap Range(LiveIds(raf))
    IN /\ SelectSeq(raf.calls, LAMBDA id : id \in kept)
            = SelectSeq(raf.atStart, LAMBDA id : id \in kept)
       /\ (Size(raf) > 0 => raf.pending # <<>>)

\* C35: at most one animation-frame request of the manager is outstanding,
\* and one is outstanding exactly when a callback is subscribed.
C35_OneFrameRequest ==
  /\ Len(raf.pending) <= 1
  /\ (Len(raf.pending) = 1 <=> Size(raf) > 0)

\* C36: at most one tickLoop frame is pending, and exactly one is pending
\* whenever the state is playing or looping.
C36_OneTickPending ==
  LET pending == orphans + (IF rafLive THEN 1 ELSE 0)
  IN /\ pending <= 1
     /\ (Running(TL) => pending = 1)

\* C37: the state the controller's getters read (animationState, which is
\* also the last value given to onStateChange) equals stateRef.current, the
\* state play, pause, toggle, seek and tickLoop branch on.
C37_ExposedState == animationState = stateRef

\* C38: once an exportPng or exportGif that was called in state idle, paused
\* or completed has resolved, the timeline is in that state at the progress
\* it had, and after an export from completed play() restarts from 0.
C38_ExportKeepsState ==
  (/\ exp.kind \in {"png", "gif"}
   /\ Settled /\ exp.result = "resolved"
   /\ exp.stateBefore \in {"idle", "paused", "completed"}) =>
    /\ stateRef = exp.stateBefore
    /\ progressRef = exp.currentProgress
    /\ exp.stateBefore = "completed" =>
         play(TL, now, FALSE).progressRef = Zero

\* exportGif with play() and seek() called while it is suspended at an await
NextOverlap ==
  \/ Advance
  \/ FrameNamed
  \/ Play
  \/ Seek({<<1, 4>>})
  \/ GifStart
  \/ GifAfterWait
  \/ GifImageLoad
  \/ GifImageError

SpecOverlap == InitWith({One}, {FALSE}, {FALSE}) /\ [][NextOverlap]_vars

\* the clone of a frame is taken while the timeline is playing
GifCloneWhilePlaying ==
  /\ exp.kind = "gif" /\ exp.pc = "wait" /\ exp'.pc = "image"
  /\ Running(TL)

\* exportGif resolves for a timeline that was playing and leaves it stopped
GifLeavesStopped ==
  /\ exp.kind = "gif" /\ ~Settled /\ Settled'
  /\ exp'.result = "resolved" /\ exp.wasPlaying
  /\ stateRef' \notin {"playing", "looping"}

\* C39: with play() and seek() called while exportGif is suspended, no frame
\* is taken while the timeline is playing, and a timeline that was playing
\* when exportGif was called is playing when it has resolved.
C39_OverlapKeepsFrames ==
  [][~GifCloneWhilePlaying /\ ~GifLeavesStopped]_vars

\* C40: the delay in every frame's graphics control extension, in hundredths
\* of a second, is 1/fps rounded, and the delays add up to the requested
\* duration to within one frame interval.
C40_FrameDelay ==
  (enc.gif # <<>> /\ enc.duration # 0) =>
    LET b == enc.gif
        fps == gifFps(enc.fps)
        RECURSIVE SkipSubBlocks(_)
        SkipSubBlocks(pos) ==
          IF b[pos] = 0 THEN pos + 1 ELSE SkipSubBlocks(pos + b[pos] + 1)
        \* the delays of the n frame blocks that start at pos
        RECURSIVE FrameDelays(_, _)
        FrameDelays(pos, n) ==
          IF n = 0 THEN <<>>
          ELSE <<b[pos + 4] + 256 * b[pos + 5]>>
                 \o FrameDelays(SkipSubBlocks(pos + 19), n - 1)
        ds == FrameDelays(801, Len(enc.frames))
        RECURSIVE Sum(_)
        Sum(s) == IF s = <<>> THEN 0 ELSE Head(s) + Sum(Tail(s))
        \* total playback time and the duration, both in ms times fps
        played == Sum(ds) * 10 * fps
        asked == enc.duration * fps
    IN /\ \A i \in DOMAIN ds : ds[i] = gifDelayCs(fps)
       /\ played - asked <= 1000
       /\ asked - played <= 1000

====
